---- MODULE Spec2Model ----
(***************************************************************************)
(* A model of claudette's effect core (action.ts), model dispatch          *)
(* (anthropic.ts: decideTool / approve), agent loop (agent.ts), tools      *)
(* (tool.ts, navigation.ts) and commands (extension.ts).                   *)
(*                                                                         *)
(* The specifications share the variables:                                 *)
(*   SpecEffect   - the Action combinators applied to bounded inputs       *)
(*   SpecConc     - the branches of one sequence(...) running concurrently *)
(*   SpecDispatch - one call of decideTool over a tool list                *)
(*   SpecAgent    - Agent.runWithGoal: recurse / step over the toolkit     *)
(*   SpecNav      - translate_cursor, cursor_location, surrounding_ctx     *)
(*   SpecStream   - streamAppend / streamReplace                           *)
(*   SpecTool     - Tool descriptions, derived tools and detectSchema      *)
(*   SpecApp      - the registered commands and App.repeat                 *)
(***************************************************************************)
EXTENDS Integers, Sequences, FiniteSets, TLC

\* ------------------------------------------------------------------------
\* Bounds
\* ------------------------------------------------------------------------
MaxNum == 5          \* numbers carried by pure(n) are 0..MaxNum
MaxArity == 3        \* the longest argument list handed to sequence(...)
MaxBlocks == 2       \* the most content blocks in one Model response
MaxTools == 2        \* the longest tool list tried besides the Agent's toolkit
MaxRoundsBound == 2  \* maxRounds of an Agent ranges over 0..MaxRoundsBound
MaxLine == 5         \* the cursor's line ranges over 0..MaxLine
MaxCharacter == 10   \* the cursor's character ranges over 0..MaxCharacter
MaxDelta == 2        \* lineDelta, characterDelta range over -MaxDelta..MaxDelta
MaxValue == 1        \* lineValue, characterValue range over -1..MaxValue
MaxLines == 3        \* a document has 1..MaxLines lines
MaxLineLength == 2   \* each line has 0..MaxLineLength characters
MaxSurrounding == 4  \* surrounding_lines ranges over 0..MaxSurrounding
MaxChunks == 3       \* a stream yields 0..MaxChunks chunks
MaxChunkLen == 1     \* each chunk has 0..MaxChunkLen characters
MaxExamples == 2     \* a tool declares 0..MaxExamples examples
MaxProps == 2        \* a sample object has 0..MaxProps properties
maxHistorySize == 3  \* App.maxHistorySize, the commands the history keeps
MaxReplay == 3       \* the actions one handler run enters are followed up to here

\* ------------------------------------------------------------------------
\* JavaScript values carried by an Action.  Every value is a record of the
\* same shape so that values of different runtime types can be compared.
\* ------------------------------------------------------------------------
Undefined == [k |-> "undefined", f |-> "", n |-> 0, items |-> <<>>]
Num(n) == [k |-> "num", f |-> "", n |-> n, items |-> <<>>]
\* the result of `+` when an operand is not a number (string concatenation)
Str == [k |-> "string", f |-> "", n |-> 0, items |-> <<>>]
\* an array value, as built by sequence
Tuple(vs) == [k |-> "tuple", f |-> "", n |-> 0, items |-> vs]
\* (x: number) => x + 1
AddOne == [k |-> "fn", f |-> "addOne", n |-> 0, items |-> <<>>]
\* (x: number) => (y: number) => x + y
Add == [k |-> "fn", f |-> "add", n |-> 0, items |-> <<>>]
\* the closure (y) => x + y returned by Add, holding x
AddTo(x) == [k |-> "fn", f |-> "addTo", n |-> 0, items |-> <<x>>]

\* () => v: a zero-argument computation
Thunk(v) == [k |-> "fn", f |-> "thunk", n |-> 0, items |-> <<v>>]
\* a Promise that fulfils with v, and one that rejects with Error(m)
Fulfilled(v) == [k |-> "promise", f |-> "", n |-> 0, items |-> <<v>>]
RejectedWith(m) == [k |-> "promise", f |-> m, n |-> 0, items |-> <<>>]

\* a string with its characters
Text(s) == [k |-> "string", f |-> s, n |-> 0, items |-> <<>>]

\* a plain object: its own enumerable properties [key, val] in insertion
\* order, the keys distinct
Obj(entries) == [k |-> "object", f |-> "", n |-> 0, items |-> entries]

\* what a synchronous callback that throws yields
Throw(m) == [k |-> "throw", f |-> m, n |-> 0, items |-> <<>>]
IsThrow(v) == v.k = "throw"

\* JavaScript `x + y`
Plus(x, y) == IF x.k = "num" /\ y.k = "num" THEN Num(x.n + y.n) ELSE Str

\* JavaScript call expression f(g): calling a non-function throws TypeError
Call(f, g) ==
  IF f.k # "fn" THEN Throw("TypeError: f is not a function")
  ELSE IF f.f = "addOne" THEN Plus(g, Num(1))
  ELSE IF f.f = "add" THEN AddTo(g)
  ELSE IF f.f = "thunk" THEN f.items[1]
  ELSE Plus(f.items[1], g)

\* ------------------------------------------------------------------------
\* Locations and codecs (navigation.ts, tool.ts)
\* ------------------------------------------------------------------------
\* uri.fsPath: the path without the scheme (undefined, here "", when read
\* from something that is no Uri)
fsPath(uri) ==
  CASE uri = "file:///src/a.ts" -> "/src/a.ts"
    [] uri = "file:///src/b.ts" -> "/src/b.ts"
    [] uri = "untitled:/src/a.ts" -> "/src/a.ts"
    [] OTHER -> ""
\* vscode.Uri.file(path)
UriFile(path) == "file://" \o path

\* vscode.Location (uri in f) and the tool-facing class Location (path in
\* f); items holds the range: start line, start character, end line, end
\* character
VsLocation(uri, range) == [k |-> "vscode.Location", f |-> uri, n |-> 0, items |-> range]
Location(path, range) == [k |-> "Location", f |-> path, n |-> 0, items |-> range]

\* Location.fromVSCodeLocation
fromVSCodeLocation(l) ==
  IF l.k = "vscode.Location" THEN Location(fsPath(l.f), l.items)
  ELSE IF l.k = "Location" THEN Location("", l.items)
  ELSE Throw("TypeError: cannot read properties of undefined")
\* Location.prototype.toVSCodeLocation
toVSCodeLocation(l) ==
  IF l.k = "Location" THEN VsLocation(UriFile(l.f), l.items)
  ELSE Throw("TypeError: toVSCodeLocation is not a function")

\* Codec.array: arr.map(fn), fn one of the two conversions of Location
MapArray(fn, arr) ==
  IF arr.k # "tuple" THEN Throw("TypeError: arr.map is not a function")
  ELSE LET out == [i \in 1..Len(arr.items) |->
                     IF fn = "fromVSCodeLocation"
                     THEN fromVSCodeLocation(arr.items[i])
                     ELSE toVSCodeLocation(arr.items[i])]
       IN  IF \E i \in 1..Len(out) : IsThrow(out[i])
           THEN out[CHOOSE i \in 1..Len(out) :
                      IsThrow(out[i]) /\ \A j \in 1..(i - 1) : ~IsThrow(out[j])]
           ELSE Tuple(out)

\* the codecs referencesTool is wrapped with, by the expression that builds
\* them
InputCodec == "Location.codec()"
OutputCodec == "Codec.array(Location.codec().flip())"
\* Codec.encode / Codec.decode of these two codecs (flip swaps the two
\* directions of Location.codec())
encode(codec, v) ==
  IF codec = InputCodec THEN fromVSCodeLocation(v)
  ELSE MapArray("toVSCodeLocation", v)
decode(codec, v) ==
  IF codec = InputCodec THEN toVSCodeLocation(v)
  ELSE MapArray("fromVSCodeLocation", v)

\* ------------------------------------------------------------------------
\* ActionResult<A> and the outcome of executing an Action.
\* An execution either resolves to an ActionResult (success | cancelled) or
\* rejects (type "fatal", the thrown Error's message in msg).
\* `calls` counts the invocations of user callbacks during the execution.
\* ------------------------------------------------------------------------
cancellation == [type |-> "cancelled", value |-> Undefined, msg |-> ""]
success(a) == [type |-> "success", value |-> a, msg |-> ""]
rejection(m) == [type |-> "fatal", value |-> Undefined, msg |-> m]

Exec(r, c) == [res |-> r, calls |-> c]

cancel == Exec(cancellation, 0)
fail(message) == Exec(rejection(message), 0)
\* pure(x) = lift(() => x): liftEditor calls the wrapper, which returns x
\* itself (a function x is not called), and awaits x when it is a Promise
pure(x) ==
  IF x.k # "promise" THEN Exec(success(x), 0)
  ELSE IF x.items = <<>> THEN Exec(rejection(x.f), 0)
  ELSE Exec(success(x.items[1]), 0)

\* array destructuring: a missing element is undefined
Item(t, i) == IF i <= Len(t.items) THEN t.items[i] ELSE Undefined

\* the callback of apply: ([f, g]) => f(g); destructuring a value that is
\* not an array throws
ApplyPair(t) ==
  IF t.k # "tuple" THEN Throw("TypeError: undefined is not iterable")
  ELSE Call(Item(t, 1), Item(t, 2))

\* Callbacks are passed by name.  Those handed to bind, (a) => Action:
KleisliNames == {"pure", "cancel", "fail"}
Kleisli(f, v) ==
  CASE f = "pure" -> pure(v)
    [] f = "cancel" -> cancel
    [] f = "fail" -> fail("Operation failed")

\* those handed to sideEffect, (a) => void, wrapped by sideEffect as
\* x => { f(x); return x; }
SideEffectNames == {"log", "throws"}
Tap(f) == "x => { " \o f \o "(x); return x; }"

\* those handed to map, (a) => b
MapNames == {"id", "addOne", "throws"}
MapFn(f, v) ==
  CASE f = "id" -> v
    [] f = "addOne" -> Plus(v, Num(1))
    [] f = "throws" -> Throw("boom")
    [] f = "([f, g]) => f(g)" -> ApplyPair(v)
    [] f = "([f, g]) => g(f)" -> Call(Item(v, 2), Item(v, 1))
    [] f = Tap("log") -> v
    [] f = Tap("throws") -> Throw("boom")
    [] f = "outputCodec.encode" -> encode(OutputCodec, v)

\* Action.bind
bind_nocheck(a, f) ==
  IF a.res.type = "fatal" THEN a
  ELSE LET b == Kleisli(f, a.res.value)
       IN  Exec(b.res, a.calls + 1 + b.calls)
bind_swallow(a, f) ==
  IF a.res.type # "success" THEN Exec(cancellation, a.calls)
  ELSE LET b == Kleisli(f, a.res.value)
       IN  Exec(b.res, a.calls + 1 + b.calls)
bind(a, f) ==
  IF a.res.type = "fatal" THEN a
  ELSE IF a.res.type = "cancelled" THEN Exec(cancellation, a.calls)
  ELSE LET b == Kleisli(f, a.res.value)
       IN  Exec(b.res, a.calls + 1 + b.calls)

\* Action.map
map_nocheck(a, f) ==
  IF a.res.type = "fatal" THEN a
  ELSE LET v == MapFn(f, a.res.value)
       IN  IF IsThrow(v) THEN Exec(rejection(v.f), a.calls + 1)
           ELSE Exec(success(v), a.calls + 1)
map(a, f) ==
  IF a.res.type = "fatal" THEN a
  ELSE IF a.res.type = "cancelled" THEN Exec(cancellation, a.calls)
  ELSE LET v == MapFn(f, a.res.value)
       IN  IF IsThrow(v) THEN Exec(rejection(v.f), a.calls + 1)
           ELSE Exec(success(v), a.calls + 1)

\* Action.sideEffect: this.map(x => { f(x); return x; })
sideEffect(a, f) == map(a, Tap(f))

\* Action.defer: pure(undefined).bind(f)
defer(f) == bind(pure(Undefined), f)

\* Action.or: the receiver's Success, else (cancelled, or the catch block)
\* other.execute(editor)
or_cancelOnly(a, other) ==
  IF a.res.type = "cancelled" THEN Exec(other.res, a.calls + other.calls)
  ELSE a
or(a, other) ==
  IF a.res.type = "success" THEN a
  ELSE Exec(other.res, a.calls + other.calls)

\* langs.actions: the names of the registered languages (go, typescript)
Languages == {"go", "typescript"}
languageDirContext_noFallback(languageId, dirCtx) ==
  IF languageId \in Languages THEN Exec(dirCtx.res, 1 + dirCtx.calls)
  ELSE Exec(rejection("TypeError: cannot read properties of undefined"), 1)
\* languageDirContext: liftEditor(languageId).bind(lang => resolver, or a
\* throw when lang has none).or(pure("")); dirCtx is the execution of the
\* summarizer registered for every language
languageDirContext(languageId, dirCtx) ==
  LET resolver == IF languageId \in Languages THEN dirCtx
                  ELSE fail("TypeError: cannot read properties of undefined")
      lang == pure(Text(languageId))
  IN  or(Exec(resolver.res, lang.calls + 1 + resolver.calls), pure(Text("")))

RECURSIVE SumCalls(_)
SumCalls(actions) ==
  IF actions = <<>> THEN 0
  ELSE Head(actions).calls + SumCalls(Tail(actions))

Indices(s) == 1..Len(s)

\* sequence(...actions): Promise.all over the executions, then the check for
\* a cancelled result.  Promise.all rejects with whichever input rejects
\* first, so every rejecting input is a possible outcome.
sequence_partial(actions) ==
  LET n == SumCalls(actions)
      rejected == {i \in Indices(actions) : actions[i].res.type = "fatal"}
  IN  IF rejected # {} THEN {Exec(actions[i].res, n) : i \in rejected}
      ELSE {Exec(success(Tuple([i \in Indices(actions) |-> actions[i].res.value])), n)}
sequence(actions) ==
  LET n == SumCalls(actions)
      rejected == {i \in Indices(actions) : actions[i].res.type = "fatal"}
  IN  IF rejected # {} THEN {Exec(actions[i].res, n) : i \in rejected}
      ELSE IF \E i \in Indices(actions) : actions[i].res.type = "cancelled"
           THEN {Exec(cancellation, n)}
      ELSE {Exec(success(Tuple([i \in Indices(actions) |-> actions[i].res.value])), n)}

\* Action.apply: sequence(this, action).map(([f, g]) => f(g))
apply_flipped(this, action) ==
  {map(s, "([f, g]) => g(f)") : s \in sequence(<<this, action>>)}
apply_nocancel(this, action) ==
  IF this.res.type = "fatal" THEN {this}
  ELSE IF action.res.type = "fatal" THEN {action}
  ELSE LET v == Call(this.res.value, action.res.value)
       IN  {IF IsThrow(v) THEN Exec(rejection(v.f), this.calls + action.calls + 1)
            ELSE Exec(success(v), this.calls + action.calls + 1)}
apply(this, action) ==
  {map(s, "([f, g]) => f(g)") : s \in sequence(<<this, action>>)}

\* ------------------------------------------------------------------------
\* Tool.wrap (tool.ts) around the references implementation (navigation.ts)
\* ------------------------------------------------------------------------
\* how the Environment answers the wrapped tool's implementation: the
\* reference provider returns undefined, returns locations or throws; or the
\* implementation is one that resolves to Cancelled
ToolBehaviours == {"undefined", "found", "throws", "cancels"}

\* the actionFn of the tool handed to Tool.wrap, on a Location:
\* executeReferenceProvider(location.toVSCodeLocation().uri, ...), then
\* references?.map(Location.fromVSCodeLocation) || []
actionFn(behaviour, location) ==
  LET v == toVSCodeLocation(location)
  IN  IF IsThrow(v) THEN fail(v.f)
      ELSE CASE behaviour = "throws" -> fail("command failed")
             [] behaviour = "cancels" -> cancel
             [] behaviour = "undefined" -> pure(Tuple(<<>>))
             [] OTHER ->
                  pure(Tuple(<<fromVSCodeLocation(v),
                               fromVSCodeLocation(VsLocation("file:///src/b.ts", v.items))>>))

\* the actionFn Tool.wrap builds:
\* (input) => tool.action(inputCodec.encode(input)).map(outputCodec.encode)
wrap_rawOutput(behaviour, input) ==
  LET i == encode(InputCodec, input)
  IN  IF IsThrow(i) THEN fail(i.f) ELSE actionFn(behaviour, i)
wrap(behaviour, input) ==
  LET i == encode(InputCodec, input)
  IN  IF IsThrow(i) THEN fail(i.f)
      ELSE map(actionFn(behaviour, i), "outputCodec.encode")

\* ------------------------------------------------------------------------
\* Tools, Model responses and dispatch results (tool.ts, anthropic.ts)
\* ------------------------------------------------------------------------
\* enum StepType
Intermediate == "Intermediate"
Finished == "Finished"

\* a Tool after Agent._stepMap: its name and the StepType its output is
\* tagged with
Tool(name, type) == [name |-> name, type |-> type]

\* Agent.toolkit(): _stepMap(Intermediate, ...navigation tools, setPlan)
\* followed by _stepMap(Finished, finishTool)
toolkit_untagged ==
  << Tool("cursor_location", Intermediate),
     Tool("symbols_list", Intermediate),
     Tool("references", Intermediate),
     Tool("next_problem", Intermediate),
     Tool("surrounding_ctx", Intermediate),
     Tool("directory_ctx", Intermediate),
     Tool("translate_cursor", Intermediate),
     Tool("setPlan", Intermediate),
     Tool("finish", Intermediate) >>
toolkit ==
  << Tool("cursor_location", Intermediate),
     Tool("symbols_list", Intermediate),
     Tool("references", Intermediate),
     Tool("next_problem", Intermediate),
     Tool("surrounding_ctx", Intermediate),
     Tool("directory_ctx", Intermediate),
     Tool("translate_cursor", Intermediate),
     Tool("setPlan", Intermediate),
     Tool("finish", Finished) >>

\* tool inputs: the fields the internal tools read
NoInput == [plan |-> "", summary |-> ""]
NoOutput == [type |-> "", val |-> ""]
\* UnwrapTool: { tool, input, output }; idx is the tool's place in the list
NoValue == [tool |-> "", idx |-> 0, input |-> NoInput, output |-> NoOutput]
Raw(val) == [tool |-> "", idx |-> 0, input |-> NoInput,
             output |-> [type |-> "", val |-> val]]

NoResult == [type |-> "none", value |-> NoValue, msg |-> ""]
Resolved(v) == [type |-> "success", value |-> v, msg |-> ""]
Cancelled == [type |-> "cancelled", value |-> NoValue, msg |-> ""]
Rejected(m) == [type |-> "fatal", value |-> NoValue, msg |-> m]

\* content blocks of a Model response
TextBlock == [type |-> "text", name |-> "", input |-> NoInput]
ToolUse(name, input) == [type |-> "tool_use", name |-> name, input |-> input]
NoCall == [type |-> "undefined", name |-> "", input |-> NoInput]

\* decideTool: the reduce that splits content, then output.toolUse[0]
FirstToolUse_last(blocks) ==
  LET toolUse == SelectSeq(blocks, LAMBDA cur : cur.type # "text")
  IN  IF toolUse = <<>> THEN NoCall ELSE toolUse[Len(toolUse)]
FirstToolUse(blocks) ==
  LET toolUse == SelectSeq(blocks, LAMBDA cur : cur.type # "text")
  IN  IF toolUse = <<>> THEN NoCall ELSE toolUse[1]

\* decideTool: tools.find(t => t.name === call.name); 0 stands for undefined
find_default(ts, name) ==
  IF \E i \in Indices(ts) : ts[i].name = name
  THEN CHOOSE i \in Indices(ts) :
         /\ ts[i].name = name
         /\ \A j \in 1..(i - 1) : ts[j].name # name
  ELSE IF ts # <<>> THEN 1 ELSE 0
find_last(ts, name) ==
  IF \E i \in Indices(ts) : ts[i].name = name
  THEN CHOOSE i \in Indices(ts) :
         /\ ts[i].name = name
         /\ \A j \in (i + 1)..Len(ts) : ts[j].name # name
  ELSE 0
find(ts, name) ==
  IF \E i \in Indices(ts) : ts[i].name = name
  THEN CHOOSE i \in Indices(ts) :
         /\ ts[i].name = name
         /\ \A j \in 1..(i - 1) : ts[j].name # name
  ELSE 0

\* Agent.setPlanTool: ({ plan }) => { this.plan = plan; ... } - the value of
\* this.plan afterwards
setPlanTool_keep(thisPlan, input) == thisPlan
setPlanTool_append(thisPlan, input) == thisPlan \o input.plan
setPlanTool(thisPlan, input) == input.plan

\* nextProblemTool: executeCommand('editor.action.marker.next') puts the
\* cursor on the next problem marker, here the start of the line below
markerNext(active) == [line |-> active.line + 1, character |-> 0]

\* Agent.step: this.rounds > this.maxRounds, evaluated after this.rounds++
RoundsExceeded_early(r, m) == r >= m
RoundsExceeded_late(r, m) == r > m + 1
RoundsExceeded(r, m) == r > m

ToolOutcomes_echo(name, input) ==
  CASE name = "setPlan" -> {Resolved(Raw(input.plan))}
    [] name = "finish" -> {Resolved(Raw(input.summary))}
    [] OTHER -> {Resolved(Raw("result")), Cancelled, Rejected("environment error")}
\* what running a tool's implementation on an input can yield, before the
\* output is tagged by _stepMap
ToolOutcomes(name, input) ==
  CASE name = "setPlan" -> {Resolved(Raw("{}"))}
    [] name = "finish" -> {Resolved(Raw(input.summary))}
    [] name = "directory_ctx" -> {Resolved(Raw("")), Resolved(Raw("definitions"))}
    [] name = "next_problem" ->
         {Resolved(Raw("diagnostic")), Cancelled, Rejected("command failed")}
    [] OTHER -> {Resolved(Raw("result")), Rejected("environment error")}

Message_noOutput(tool, input, output) ==
  [user |-> "assistant", tool |-> tool, msg |-> "tool called",
   input |-> input, output |-> ""]
\* Message pushed by Agent.step
Message(tool, input, output) ==
  [user |-> "assistant", tool |-> tool, msg |-> "tool called",
   input |-> input, output |-> output]

LastN_stale(h, n) == IF h = <<>> THEN h ELSE SubSeq(h, 1, Len(h) - 1)
\* messageHistory.slice(-6)
HistoryWindow == 6
LastN(h, n) == IF Len(h) <= n THEN h ELSE SubSeq(h, Len(h) - n + 1, Len(h))

NoPrompt == [goal |-> "", plan |-> "", history |-> <<>>]

\* ------------------------------------------------------------------------
\* State
\* ------------------------------------------------------------------------
VARIABLES
  eop,      \* effect core: the combinator that was executed ("none" before)
  ein,      \* effect core: the argument Actions, as their executions
  ecb,      \* effect core: the callback handed to bind / map
  eres,     \* effect core: the execution of the composed Action
  earg,     \* effect core: the plain value handed to pure or to a wrapped tool
  \* Agent fields (agent.ts)
  goal, rounds, maxRounds, messageHistory, plan,
  \* position in runWithGoal / recurse / step / decideTool / approve
  pc,
  run,      \* how agent.recurse() ended: an ActionResult, a rejection or "none"
  prompt,   \* the prompt built by Agent.prompt() for the current round
  \* decideTool's arguments and locals (anthropic.ts)
  tools, interactive, content, call, chosen,
  pending,  \* the value travelling through approve
  dres,     \* how the Action returned by decideTool ended
  \* observation
  executed, \* the tool implementations run so far, in order
  mark,     \* Len(executed) when the current decideTool call began
  gates,    \* the user's answers at the approval gates of the current call
  prompts,  \* number of prompts built in the run
  dispatches, \* number of decideTool calls in the run
  \* the Environment seen by the navigation tools (navigation.ts)
  doc,      \* the document: the length of each of its lines
  cursor,   \* editor.selection.active
  nop,      \* the navigation or tool operation that was executed ("none" before)
  nin,      \* its input
  nout,     \* its result
  \* streaming text into the buffer (extension.ts)
  buffer,   \* the text of the document, a sequence of characters
  selection, \* editor.selection, as offsets into buffer
  stream,   \* the chunks the Model's stream will yield, in order, and
            \* whether it throws instead of ending
  smode,    \* "append" (streamAppend) or "replace" (streamReplace)
  chunk,    \* the chunk bound by the running iteration of `for await`
  replacementText, \* streamReplace's accumulator
  initialSelection, \* the selection when the command started
  currentSelection, \* streamReplace's local
  requested, \* number of chunks the loop has taken from the stream
  committed, \* number of editor.edit calls that have resolved
  \* the branches of one running sequence(...) (action.ts)
  all,      \* the state of the Promise.all over the branches' executions
  settled,  \* the branches that have run to their end, in completion order
  \* the App singleton and one command handler (extension.ts)
  commandHistory, \* App.commandHistory, the names of the tracked commands
  cmd,      \* the command whose registered handler is running ("" if none)
  at,       \* the command whose action the handler's execution has reached
  ran,      \* the actions of other commands run by this handler, in order
  result    \* the type of the result the handler awaited ("none" before)

evars == <<eop, ein, ecb, eres, earg>>
avars == <<goal, rounds, maxRounds, messageHistory, plan, run, prompt,
           prompts, dispatches>>
dvars == <<tools, interactive, content, call, chosen, pending, dres, executed,
           mark, gates>>
nvars == <<doc, cursor, nop, nin, nout>>
svars == <<buffer, selection, stream, smode, chunk, replacementText, initialSelection,
           currentSelection, requested, committed>>
cvars == <<all, settled>>
rvars == <<commandHistory, cmd, at, ran, result>>
vars == <<evars, avars, dvars, nvars, svars, cvars, rvars, pc>>

NoExec == Exec([type |-> "none", value |-> Undefined, msg |-> ""], 0)
NoRun == [type |-> "none", msg |-> ""]

\* the parts of the state a specification does not use
EffectIdle ==
  eop = "none" /\ ein = <<>> /\ ecb = "" /\ eres = NoExec /\ earg = Undefined
AgentIdle ==
  /\ goal = "" /\ rounds = 0 /\ maxRounds = 0 /\ messageHistory = <<>>
  /\ run = NoRun /\ prompt = NoPrompt /\ prompts = 0 /\ dispatches = 0
DispatchIdle ==
  /\ tools = <<>> /\ interactive = FALSE /\ content = <<>> /\ call = NoCall
  /\ chosen = 0 /\ pending = NoValue /\ dres = NoResult /\ executed = <<>>
  /\ mark = 0 /\ gates = <<>>
NavIdle ==
  /\ doc = <<0>> /\ cursor = [line |-> 0, character |-> 0]
  /\ nop = "none" /\ nin = [op |-> "none"] /\ nout = [op |-> "none"]
StreamIdle ==
  /\ buffer = <<>> /\ selection = [anchor |-> 0, active |-> 0]
  /\ stream = [chunks |-> <<>>, throws |-> FALSE]
  /\ smode = "" /\ chunk = <<>> /\ replacementText = <<>>
  /\ initialSelection = [anchor |-> 0, active |-> 0]
  /\ currentSelection = [anchor |-> 0, active |-> 0]
  /\ requested = 0 /\ committed = 0
Pending == [state |-> "pending", msg |-> ""]
ConcIdle == all = Pending /\ settled = <<>>
AppIdle ==
  /\ commandHistory = <<>> /\ cmd = "" /\ at = "" /\ ran = <<>>
  /\ result = "none"

\* ------------------------------------------------------------------------
\* SpecEffect: the combinators of action.ts applied to bounded inputs
\* ------------------------------------------------------------------------
FailMessages == {"Operation failed", "boom"}
BaseValues == {Num(n) : n \in 0..MaxNum} \cup {AddOne, Add}
BaseActions == {pure(v) : v \in BaseValues} \cup {cancel}
                 \cup {fail(m) : m \in FailMessages}

SeqsUpTo(S, n) == UNION {[1..k -> S] : k \in 0..n}

InitEffect ==
  /\ eop = "none"
  /\ ein \in SeqsUpTo(BaseActions, MaxArity)
  /\ ecb = ""
  /\ eres = NoExec
  /\ earg = Undefined
  /\ pc = "effect" /\ plan = ""
  /\ AgentIdle /\ DispatchIdle /\ NavIdle /\ StreamIdle
  /\ ConcIdle /\ AppIdle

\* a.bind(f) executed
ExecBind ==
  /\ eop = "none" /\ Len(ein) >= 1
  /\ \E f \in KleisliNames :
       /\ eres' = bind(ein[1], f)
       /\ ecb' = f
  /\ eop' = "bind"
  /\ UNCHANGED <<ein, earg, avars, dvars, nvars, svars, cvars, rvars, pc>>

\* a.map(f) executed
ExecMap ==
  /\ eop = "none" /\ Len(ein) >= 1
  /\ \E f \in MapNames :
       /\ eres' = map(ein[1], f)
       /\ ecb' = f
  /\ eop' = "map"
  /\ UNCHANGED <<ein, earg, avars, dvars, nvars, svars, cvars, rvars, pc>>

\* sequence(...ein) executed
ExecSequence ==
  /\ eop = "none"
  /\ eres' \in sequence(ein)
  /\ eop' = "sequence"
  /\ UNCHANGED <<ein, ecb, earg, avars, dvars, nvars, svars, cvars, rvars, pc>>

\* ein[1].apply(ein[2]) executed
ExecApply ==
  /\ eop = "none" /\ Len(ein) = 2
  /\ eres' \in apply(ein[1], ein[2])
  /\ eop' = "apply"
  /\ UNCHANGED <<ein, ecb, earg, avars, dvars, nvars, svars, cvars, rvars, pc>>

\* ein[1].apply(ein[2]).apply(ein[3]) executed
ExecApplyChain ==
  /\ eop = "none" /\ Len(ein) = 3
  /\ eres' \in UNION {apply(r, ein[3]) : r \in apply(ein[1], ein[2])}
  /\ eop' = "applyChain"
  /\ UNCHANGED <<ein, ecb, earg, avars, dvars, nvars, svars, cvars, rvars, pc>>

\* a.or(Action.defer(f)) executed: the fallback counts one callback
\* invocation whenever it is executed
ExecOr ==
  /\ eop = "none" /\ Len(ein) >= 1
  /\ \E f \in KleisliNames :
       /\ eres' = or(ein[1], defer(f))
       /\ ecb' = f
  /\ eop' = "or"
  /\ UNCHANGED <<ein, earg, avars, dvars, nvars, svars, cvars, rvars, pc>>

\* a.sideEffect(f) executed
ExecSideEffect ==
  /\ eop = "none" /\ Len(ein) >= 1
  /\ \E f \in SideEffectNames :
       /\ eres' = sideEffect(ein[1], f)
       /\ ecb' = f
  /\ eop' = "sideEffect"
  /\ UNCHANGED <<ein, earg, avars, dvars, nvars, svars, cvars, rvars, pc>>

\* the arguments handed to pure: plain values, zero-argument computations
\* and Promises
PureArgs ==
  BaseValues \cup {Undefined}
    \cup {Thunk(Num(n)) : n \in 0..MaxNum}
    \cup {Fulfilled(Num(n)) : n \in 0..MaxNum}
    \cup {RejectedWith(m) : m \in FailMessages}

\* pure(x) executed
ExecPure ==
  /\ eop = "none" /\ ein = <<>>
  /\ \E x \in PureArgs :
       /\ earg' = x
       /\ eres' = pure(x)
  /\ eop' = "pure"
  /\ UNCHANGED <<ein, ecb, avars, dvars, nvars, svars, cvars, rvars, pc>>

\* the external inputs of the wrapped references tool
WrapInputs ==
  {VsLocation(u, r) :
     u \in {"file:///src/a.ts", "file:///src/b.ts", "untitled:/src/a.ts"},
     r \in {<<Num(0), Num(0), Num(0), Num(0)>>,
            <<Num(1), Num(2), Num(1), Num(5)>>}}

\* Tool.wrap(tool, inputCodec, outputCodec).action(x) executed, next to
\* tool.action(inputCodec.encode(x)) in the same Environment
ExecWrap ==
  /\ eop = "none" /\ ein = <<>>
  /\ \E x \in WrapInputs, b \in ToolBehaviours :
       /\ earg' = x
       /\ ecb' = b
       /\ ein' = <<actionFn(b, encode(InputCodec, x))>>
       /\ eres' = wrap(b, x)
  /\ eop' = "wrap"
  /\ UNCHANGED <<avars, dvars, nvars, svars, cvars, rvars, pc>>

\* the directory_ctx tool executed on a document of some language, with
\* some outcome of the language's summarizer
ExecDirCtx ==
  /\ eop = "none" /\ ein = <<>>
  /\ \E languageId \in Languages \cup {"python", "plaintext"},
        dirCtx \in {pure(Text("type Foo struct")), pure(Text("")), cancel,
                    fail("boom")} :
       /\ earg' = Text(languageId)
       /\ ein' = <<dirCtx>>
       /\ eres' = languageDirContext(languageId, dirCtx)
  /\ eop' = "directory_ctx"
  /\ UNCHANGED <<ecb, avars, dvars, nvars, svars, cvars, rvars, pc>>

\* the inputs the Model passes to a tool
PlanStrings == {"plan A", "plan B"}
InputsFor(name) ==
  CASE name = "setPlan" -> {[plan |-> p, summary |-> ""] : p \in PlanStrings}
    [] name = "finish" -> {[plan |-> "", summary |-> "all done"]}
    [] OTHER -> {NoInput}

\* tool.action(input) called on one of the Agent's internal tools: the
\* implementation runs and returns an Action, which is not executed yet.
\* setPlan's implementation assigns this.plan before it returns pure({})
CallTool ==
  /\ eop = "none" /\ ein = <<>>
  /\ \E name \in {"setPlan", "finish"} :
       \E input \in InputsFor(name) :
         /\ ecb' = name
         /\ earg' = Text(IF name = "setPlan" THEN input.plan ELSE input.summary)
         /\ plan' = IF name = "setPlan" THEN setPlanTool(plan, input) ELSE plan
  /\ eop' = "action"
  /\ UNCHANGED <<ein, eres, goal, rounds, maxRounds, messageHistory, run,
                 prompt, prompts, dispatches, dvars, nvars, svars, cvars,
                 rvars, pc>>

\* execute(editor) on the Action a tool returned: pure({}) of setPlan,
\* pure({type: StepType.Finished, val: x.summary}) of finish
ExecuteCalled ==
  /\ eop = "action"
  /\ eres' = IF ecb = "setPlan" THEN pure(Obj(<<>>))
             ELSE pure(Obj(<<[key |-> "type", val |-> Text(Finished)],
                             [key |-> "val", val |-> earg]>>))
  /\ eop' = "executed"
  /\ UNCHANGED <<ein, ecb, earg, avars, dvars, nvars, svars, cvars, rvars, pc>>

NextEffect ==
  \/ ExecBind
  \/ ExecMap
  \/ ExecSequence
  \/ ExecApply
  \/ ExecApplyChain
  \/ ExecOr
  \/ ExecSideEffect
  \/ ExecPure
  \/ ExecWrap
  \/ ExecDirCtx
  \/ CallTool
  \/ ExecuteCalled

SpecEffect == InitEffect /\ [][NextEffect]_vars

\* ------------------------------------------------------------------------
\* decideTool and approve (anthropic.ts), one action per awaited step
\* ------------------------------------------------------------------------
\* the names the Model answers with; "bogus" is in no tool list
ResponseNames ==
  {"cursor_location", "next_problem", "setPlan", "finish", "bogus"}
Blocks ==
  {TextBlock} \cup
  UNION {{ToolUse(name, i) : i \in InputsFor(name)} : name \in ResponseNames}
Responses == SeqsUpTo(Blocks, MaxBlocks)

\* lift(async () => anthropic.messages.create(...)): the Model answers with
\* a message, or the call throws
ModelResponds ==
  /\ pc = "model"
  /\ \E c \in Responses : content' = c
  /\ pc' = "parse"
  /\ UNCHANGED <<evars, nvars, svars, cvars, rvars, avars, tools, interactive, call, chosen, pending,
                 dres, executed, mark, gates>>

ModelThrows ==
  /\ pc = "model"
  /\ dres' = Rejected("Error deciding tool")
  /\ pc' = "returned"
  /\ UNCHANGED <<evars, nvars, svars, cvars, rvars, avars, tools, interactive, content, call, chosen,
                 pending, executed, mark, gates>>

\* the callback bound to the Model's message: pick the call and the tool
ParseResponse ==
  /\ pc = "parse"
  /\ LET c == FirstToolUse(content)
         t == find(tools, c.name)
     IN  /\ call' = c
         /\ IF c = NoCall
            THEN /\ dres' = Rejected("No tool was chosen")
                 /\ pc' = "returned"
                 /\ UNCHANGED <<chosen, pending>>
            ELSE IF t = 0
            THEN /\ dres' = Rejected("Chosen tool not found in provided tools")
                 /\ pc' = "returned"
                 /\ UNCHANGED <<chosen, pending>>
            ELSE /\ chosen' = t
                 /\ pending' = [NoValue EXCEPT !.input = c.input]
                 /\ pc' = IF interactive THEN "approveInput" ELSE "execute"
                 /\ UNCHANGED dres
  /\ UNCHANGED <<evars, nvars, svars, cvars, rvars, avars, tools, interactive, content, executed, mark,
                 gates>>

\* what vscode.window.showInputBox resolves to: the typed string, or
\* undefined when the user dismisses the box
InputBoxAnswers == {Undefined, Str}
\* the user's decision an answer expresses
Decision(x) == IF x = Undefined THEN "abort" ELSE "continue"

\* promptUserTool: showInputBox(opts), then x === undefined ? cancel() : pure(x)
promptUserTool_accept(x) == pure(x)
promptUserTool(x) == IF x = Undefined THEN cancel ELSE pure(x)

\* approve: requestApproval(input, fmtI, "input") - the buffer is shown (or
\* showTextDocument throws) and promptUserTool asks
ApproveInput ==
  /\ pc = "approveInput"
  /\ \/ \E x \in InputBoxAnswers :
          /\ gates' = Append(gates, Decision(x))
          /\ IF promptUserTool(x).res.type = "success"
             THEN pc' = "execute" /\ UNCHANGED dres
             ELSE pc' = "returned" /\ dres' = Cancelled
     \/ /\ pc' = "returned"
        /\ dres' = Rejected("showTextDocument failed")
        /\ UNCHANGED gates
  /\ UNCHANGED <<evars, nvars, svars, cvars, rvars, avars, tools, interactive, content, call,
                 chosen, pending, executed, mark>>

\* execute(input): chosen.action(input).map(output => ({input, tool, output}))
ExecuteTool_anyToolPlans ==
  /\ pc = "execute"
  /\ LET t == tools[chosen]
         input == pending.input
     IN  /\ executed' = Append(executed, [idx |-> chosen, name |-> t.name, input |-> input])
         /\ plan' = IF t.name = "setPlan" THEN setPlanTool(plan, input)
                    ELSE IF t.name = "finish" THEN input.summary ELSE plan
         /\ cursor' = IF t.name = "next_problem" THEN markerNext(cursor) ELSE cursor
         /\ \E r \in ToolOutcomes(t.name, input) :
              IF r.type = "success"
              THEN LET v == [tool |-> t.name, idx |-> chosen, input |-> input,
                             output |-> [type |-> t.type, val |-> r.value.output.val]]
                   IN  /\ pending' = v
                       /\ IF interactive
                          THEN pc' = "approveOutput" /\ UNCHANGED dres
                          ELSE pc' = "returned" /\ dres' = Resolved(v)
              ELSE /\ dres' = r
                   /\ pc' = "returned"
                   /\ UNCHANGED pending
  /\ UNCHANGED <<evars, doc, nop, nin, nout, svars, cvars, rvars, goal,
                 rounds, maxRounds, messageHistory, run, prompt,
                 prompts, dispatches, tools, interactive, content, call, chosen,
                 mark, gates>>
ExecuteTool ==
  /\ pc = "execute"
  /\ LET t == tools[chosen]
         input == pending.input
     IN  /\ executed' = Append(executed, [idx |-> chosen, name |-> t.name, input |-> input])
         /\ plan' = IF t.name = "setPlan" THEN setPlanTool(plan, input) ELSE plan
         /\ cursor' = IF t.name = "next_problem" THEN markerNext(cursor) ELSE cursor
         /\ \E r \in ToolOutcomes(t.name, input) :
              IF r.type = "success"
              THEN LET v == [tool |-> t.name, idx |-> chosen, input |-> input,
                             output |-> [type |-> t.type, val |-> r.value.output.val]]
                   IN  /\ pending' = v
                       /\ IF interactive
                          THEN pc' = "approveOutput" /\ UNCHANGED dres
                          ELSE pc' = "returned" /\ dres' = Resolved(v)
              ELSE /\ dres' = r
                   /\ pc' = "returned"
                   /\ UNCHANGED pending
  /\ UNCHANGED <<evars, doc, nop, nin, nout, svars, cvars, rvars, goal,
                 rounds, maxRounds, messageHistory, run, prompt,
                 prompts, dispatches, tools, interactive, content, call, chosen,
                 mark, gates>>

\* approve: requestApproval(o, fmtO, "output").map(() => o)
ApproveOutput ==
  /\ pc = "approveOutput"
  /\ \/ \E x \in InputBoxAnswers :
          /\ gates' = Append(gates, Decision(x))
          /\ dres' = IF promptUserTool(x).res.type = "success"
                     THEN Resolved(pending) ELSE Cancelled
     \/ dres' = Rejected("showTextDocument failed") /\ UNCHANGED gates
  /\ pc' = "returned"
  /\ UNCHANGED <<evars, nvars, svars, cvars, rvars, avars, tools, interactive, content, call,
                 chosen, pending, executed, mark>>

\* ------------------------------------------------------------------------
\* SpecDispatch: one call decideTool(prompt, interactive, ...tools)
\* ------------------------------------------------------------------------
DispatchPool ==
  {Tool("next_problem", Intermediate), Tool("setPlan", Intermediate),
   Tool("finish", Finished)}
ToolLists == {toolkit} \cup SeqsUpTo(DispatchPool, MaxTools)

InitDispatch ==
  /\ EffectIdle /\ NavIdle /\ StreamIdle
  /\ ConcIdle /\ AppIdle
  /\ goal = "" /\ rounds = 0 /\ maxRounds = 0 /\ messageHistory = <<>>
  /\ plan \in {""} \cup PlanStrings
  /\ run = NoRun /\ prompt = NoPrompt /\ prompts = 0 /\ dispatches = 1
  /\ tools \in ToolLists
  /\ interactive \in BOOLEAN
  /\ content = <<>> /\ call = NoCall /\ chosen = 0 /\ pending = NoValue
  /\ dres = NoResult /\ executed = <<>> /\ mark = 0 /\ gates = <<>>
  /\ pc = "model"

NextDispatch ==
  \/ ModelResponds
  \/ ModelThrows
  \/ ParseResponse
  \/ ApproveInput
  \/ ExecuteTool
  \/ ApproveOutput

SpecDispatch == InitDispatch /\ [][NextDispatch]_vars

\* ------------------------------------------------------------------------
\* Agent (agent.ts): runWithGoal -> recurse -> step
\* ------------------------------------------------------------------------
Goals == {"refactor"}

\* Agent.create({goal, maxRounds}) followed by agent.recurse()
InitAgent ==
  /\ EffectIdle /\ NavIdle /\ StreamIdle
  /\ ConcIdle /\ AppIdle
  /\ DispatchIdle
  /\ goal \in Goals
  /\ rounds = 0
  /\ maxRounds \in 0..MaxRoundsBound
  /\ messageHistory = <<>>
  /\ plan = ""
  /\ run = NoRun /\ prompt = NoPrompt /\ prompts = 0 /\ dispatches = 0
  /\ pc = "step"

\* step, first bind: this.rounds++ and the round budget check
StepCheckRounds ==
  /\ pc = "step"
  /\ rounds' = rounds + 1
  /\ IF RoundsExceeded(rounds', maxRounds)
     THEN /\ run' = [type |-> "fatal", msg |-> "Max rounds reached"]
          /\ pc' = "done"
     ELSE /\ pc' = "prompt"
          /\ UNCHANGED run
  /\ UNCHANGED <<evars, nvars, svars, cvars, rvars, dvars, goal, maxRounds, messageHistory, plan, prompt,
                 prompts, dispatches>>

\* step, second and third bind: this.prompt() (dirCtxTool never fails, it
\* ends in or(pure(""))), then decideTool(prompt, true, ...this.toolkit())
StepPrompt ==
  /\ pc = "prompt"
  /\ prompt' = [goal |-> goal, plan |-> plan,
                history |-> LastN(messageHistory, HistoryWindow)]
  /\ prompts' = prompts + 1
  /\ dispatches' = dispatches + 1
  /\ tools' = toolkit
  /\ interactive' = TRUE
  /\ content' = <<>> /\ call' = NoCall /\ chosen' = 0 /\ pending' = NoValue
  /\ dres' = NoResult /\ mark' = Len(executed) /\ gates' = <<>>
  /\ pc' = "model"
  /\ UNCHANGED <<evars, nvars, svars, cvars, rvars, goal, rounds, maxRounds, messageHistory, plan, run,
                 executed>>

\* the rest of step and recurse once decideTool's Action has ended:
\* sideEffect pushes the history entry, recurse's bind looks at the type
StepFinish_swallowCancel ==
  /\ pc = "returned"
  /\ IF dres.type = "success"
     THEN /\ messageHistory' =
               Append(messageHistory,
                      Message(dres.value.tool, dres.value.input,
                              dres.value.output.val))
          /\ IF dres.value.output.type = Finished
             THEN /\ run' = [type |-> "success", msg |-> ""]
                  /\ pc' = "done"
             ELSE /\ pc' = "step"
                  /\ UNCHANGED run
     ELSE IF dres.type = "cancelled"
     THEN /\ pc' = "step"
          /\ UNCHANGED <<run, messageHistory>>
     ELSE /\ run' = [type |-> dres.type, msg |-> dres.msg]
          /\ pc' = "done"
          /\ UNCHANGED messageHistory
  /\ UNCHANGED <<evars, nvars, svars, cvars, rvars, dvars, goal, rounds, maxRounds, plan,
                 prompt, prompts, dispatches>>
StepFinish_retry ==
  /\ pc = "returned"
  /\ IF dres.type = "success"
     THEN /\ messageHistory' =
               Append(messageHistory,
                      Message(dres.value.tool, dres.value.input,
                              dres.value.output.val))
          /\ IF dres.value.output.type = Finished
             THEN /\ run' = [type |-> "success", msg |-> ""]
                  /\ pc' = "done"
             ELSE /\ pc' = "step"
                  /\ UNCHANGED run
     ELSE IF dres.type = "fatal"
     THEN /\ pc' = "step"
          /\ UNCHANGED <<run, messageHistory>>
     ELSE /\ run' = [type |-> dres.type, msg |-> dres.msg]
          /\ pc' = "done"
          /\ UNCHANGED messageHistory
  /\ UNCHANGED <<evars, nvars, svars, cvars, rvars, dvars, goal, rounds, maxRounds, plan, prompt, prompts,
                 dispatches>>
StepFinish ==
  /\ pc = "returned"
  /\ IF dres.type = "success"
     THEN /\ messageHistory' =
               Append(messageHistory,
                      Message(dres.value.tool, dres.value.input,
                              dres.value.output.val))
          /\ IF dres.value.output.type = Finished
             THEN /\ run' = [type |-> "success", msg |-> ""]
                  /\ pc' = "done"
             ELSE /\ pc' = "step"
                  /\ UNCHANGED run
     ELSE /\ run' = [type |-> dres.type, msg |-> dres.msg]
          /\ pc' = "done"
          /\ UNCHANGED messageHistory
  /\ UNCHANGED <<evars, nvars, svars, cvars, rvars, dvars, goal, rounds, maxRounds, plan, prompt, prompts,
                 dispatches>>

NextAgent ==
  \/ StepCheckRounds
  \/ StepPrompt
  \/ ModelResponds
  \/ ModelThrows
  \/ ParseResponse
  \/ ApproveInput
  \/ ExecuteTool
  \/ ApproveOutput
  \/ StepFinish

SpecAgent == InitAgent /\ [][NextAgent]_vars
\* the run when every awaited Model, Environment and user-prompt call
\* returns: a step that can be taken is eventually taken
SpecAgentFair == InitAgent /\ [][NextAgent]_vars /\ WF_vars(NextAgent)

\* ------------------------------------------------------------------------
\* SpecNav: the pure navigation tools translate_cursor and surrounding_ctx.
\* A document is the sequence of its lines' lengths (doc.lineCount = Len(doc),
\* doc.lineAt(i).text.length = doc[i + 1]); it always has at least one line.
\* ------------------------------------------------------------------------
\* new vscode.Position(line, character); the constructor throws when a
\* coordinate is negative, which the callers below test before building
Position(line, character) == [line |-> line, character |-> character]
\* a.isBefore(b)
isBefore(a, b) ==
  a.line < b.line \/ (a.line = b.line /\ a.character < b.character)
\* new vscode.Range(a, b): start is the earlier of the two positions
Range(a, b) ==
  IF isBefore(b, a) THEN [start |-> b, end |-> a] ELSE [start |-> a, end |-> b]

\* an optional number of a tool input: absent (undefined) or present
None == [def |-> FALSE, n |-> 0]
Some(n) == [def |-> TRUE, n |-> n]

\* the result of translate_cursor: the Location of the new position in the
\* current document, or the error thrown by Position
Moved(position) ==
  [type |-> "success", line |-> position.line, character |-> position.character]
IllegalPosition == [type |-> "fatal", line |-> 0, character |-> 0]

translate_cursor_deltaLast(current, input) ==
  LET line == (IF input.lineValue.def THEN input.lineValue.n ELSE current.line)
                + input.lineDelta.n
      character == (IF input.characterValue.def THEN input.characterValue.n
                    ELSE current.character) + input.characterDelta.n
  IN  IF line < 0 \/ character < 0 THEN IllegalPosition
      ELSE Moved(Position(line, character))
\* translate_cursor: cursor.translate(lineDelta || 0, characterDelta || 0)
\* when a delta is given, then the absolute line, then the absolute
\* character; each step builds a Position and throws on a negative
\* coordinate
translate_cursor(current, input) ==
  LET translated ==
        IF input.lineDelta.def \/ input.characterDelta.def
        THEN Position(current.line + input.lineDelta.n,
                      current.character + input.characterDelta.n)
        ELSE current
      withLine ==
        IF input.lineValue.def
        THEN Position(input.lineValue.n, translated.character)
        ELSE translated
      newPosition ==
        IF input.characterValue.def
        THEN Position(withLine.line, input.characterValue.n)
        ELSE withLine
  IN  IF translated.line < 0 \/ translated.character < 0 THEN IllegalPosition
      ELSE IF withLine.line < 0 THEN IllegalPosition
      ELSE IF newPosition.character < 0 THEN IllegalPosition
      ELSE Moved(newPosition)

clampPosition_noUpper(position, document) ==
  LET clampedLine == IF position.line < 0 THEN 0 ELSE position.line
  IN  Position(clampedLine,
               IF position.character < 0 THEN 0 ELSE position.character)
\* clampPosition
clampPosition(position, document) ==
  LET lineCount == Len(document)
      min == IF position.line < lineCount - 1 THEN position.line
             ELSE lineCount - 1
      clampedLine == IF min < 0 THEN 0 ELSE min
      lineLength == document[clampedLine + 1]
      minCharacter == IF position.character < lineLength
                      THEN position.character ELSE lineLength
  IN  Position(clampedLine, IF minCharacter < 0 THEN 0 ELSE minCharacter)

\* getSurroundingLineRanges
getSurroundingLineRanges(document, range, n) ==
  LET startLine == IF range.start.line - n < 0 THEN 0 ELSE range.start.line - n
      endLine == IF Len(document) - 1 < range.start.line + n
                 THEN Len(document) - 1 ELSE range.start.line + n
      from == Position(startLine, 0)
      to == Position(endLine, document[endLine + 1])
      clampedFrom == clampPosition(from, document)
      clampedTo == clampPosition(to, document)
  IN  [before |-> Range(clampedFrom, range.start),
       target |-> range,
       after |-> Range(range.end, clampedTo)]

\* the inputs the Model can send to translate_cursor
OptionalNumbers(lo, hi) == {None} \cup {Some(n) : n \in lo..hi}
TranslateInputs ==
  [lineDelta : OptionalNumbers(-MaxDelta, MaxDelta),
   characterDelta : OptionalNumbers(-MaxDelta, MaxDelta),
   lineValue : OptionalNumbers(-1, MaxValue),
   characterValue : OptionalNumbers(-1, MaxValue)]
\* the documents, and the target ranges the Model can send to
\* surrounding_ctx: any range of non-negative positions, inside the
\* document or not
Docs == UNION {[1..k -> 0..MaxLineLength] : k \in 1..MaxLines}
Targets ==
  LET Positions == {Position(l, c) : l \in 0..MaxLines, c \in 0..MaxLineLength}
  IN  {Range(a, b) : a \in Positions, b \in Positions}

\* either any small document with the cursor at its origin, or a document
\* of MaxLine + 1 full lines with the cursor anywhere in it
InitNav ==
  /\ \/ doc \in Docs /\ cursor = Position(0, 0)
     \/ /\ doc = [i \in 1..(MaxLine + 1) |-> MaxCharacter]
        /\ cursor \in {Position(l, c) : l \in 0..MaxLine, c \in 0..MaxCharacter}
  /\ nop = "none" /\ nin = [op |-> "none"] /\ nout = [op |-> "none"]
  /\ pc = "nav" /\ plan = ""
  /\ EffectIdle /\ AgentIdle /\ DispatchIdle /\ StreamIdle
  /\ ConcIdle /\ AppIdle

TranslateCursor_moving ==
  /\ pc = "nav" /\ nop = "none"
  /\ \E input \in TranslateInputs :
       /\ nin' = input
       /\ nout' = translate_cursor(cursor, input)
  /\ cursor' = IF nout'.type = "fatal" THEN cursor
               ELSE Position(nout'.line, nout'.character)
  /\ nop' = "translate_cursor"
  /\ UNCHANGED <<doc, evars, avars, dvars, svars, cvars, rvars, pc>>
\* the translate_cursor tool run on one input
TranslateCursor ==
  /\ pc = "nav" /\ nop = "none"
  /\ \E input \in TranslateInputs :
       /\ nin' = input
       /\ nout' = translate_cursor(cursor, input)
  /\ nop' = "translate_cursor"
  /\ UNCHANGED <<doc, cursor, evars, avars, dvars, svars, cvars, rvars, pc>>

\* the surrounding_ctx tool run on one target range of the current document
SurroundingCtx ==
  /\ pc = "nav" /\ nop = "none"
  /\ \E range \in Targets, n \in 0..MaxSurrounding :
       /\ nin' = [range |-> range, n |-> n]
       /\ nout' = getSurroundingLineRanges(doc, range, n)
  /\ nop' = "surrounding_ctx"
  /\ UNCHANGED <<doc, cursor, evars, avars, dvars, svars, cvars, rvars, pc>>

\* translate_cursor called again with the same input, any number of times
TranslateAgain ==
  /\ pc = "nav" /\ nop \in {"translate_cursor", "translate_cursor again"}
  /\ nout' = translate_cursor(cursor, nin)
  /\ nop' = "translate_cursor again"
  /\ UNCHANGED <<doc, cursor, nin, evars, avars, dvars, svars, cvars, rvars, pc>>

\* cursorLocationTool: sequence(getCursor, currentDoc).map(([cursor, doc])
\* => Location.fromVSCodeLocation(new vscode.Location(doc.uri, cursor)))
CursorLocation ==
  /\ pc = "nav"
  /\ nop \in {"none", "translate_cursor", "translate_cursor again"}
  /\ nout' = Moved(cursor)
  /\ nop' = "cursor_location"
  /\ UNCHANGED <<doc, cursor, nin, evars, avars, dvars, svars, cvars, rvars, pc>>

NextNav ==
  \/ TranslateCursor
  \/ SurroundingCtx
  \/ TranslateAgain
  \/ CursorLocation

SpecNav == InitNav /\ [][NextNav]_vars

\* ------------------------------------------------------------------------
\* SpecStream: streamAppend and streamReplace consuming the Model's stream.
\* Text is a sequence of characters and a position is an offset into it
\* (offsetAt / positionAt). Nothing but the running command edits the
\* buffer, so every editor.edit applies its edit before it resolves.
\* ------------------------------------------------------------------------
\* the text of the document before the command, and what the stream can hold
Original == <<"x", "y">>
Chunks == UNION {[1..k -> {"a", "b"}] : k \in 0..MaxChunkLen}
Selections == [anchor : 0..Len(Original), active : 0..Len(Original)]
\* selection.start, selection.end
StartOf(sel) == IF sel.anchor < sel.active THEN sel.anchor ELSE sel.active
EndOf(sel) == IF sel.anchor < sel.active THEN sel.active ELSE sel.anchor

\* editBuilder.replace(range, text) applied by editor.edit;
\* editBuilder.insert(pos, text) is the case from = to
applyEdit(text, from, to, new) ==
  SubSeq(text, 1, from) \o new \o SubSeq(text, to + 1, Len(text))

Accumulate_overwrite(text, chk) == chk
\* replacementText += chunk
Accumulate(text, chk) == text \o chk

InitStream ==
  /\ buffer = Original
  /\ selection \in Selections
  /\ initialSelection = selection /\ currentSelection = selection
  /\ stream \in [chunks : SeqsUpTo(Chunks, MaxChunks), throws : BOOLEAN]
  /\ smode \in {"append", "replace"}
  /\ chunk = <<>> /\ replacementText = <<>>
  /\ requested = 0 /\ committed = 0
  /\ pc = "streamNext" /\ plan = ""
  /\ EffectIdle /\ AgentIdle /\ DispatchIdle /\ NavIdle
  /\ ConcIdle /\ AppIdle

\* `for await (const chunk of stream)`: the loop asks the stream for its
\* next chunk; the stream yields one, ends, or throws
StreamNext ==
  /\ pc = "streamNext"
  /\ IF requested < Len(stream.chunks)
     THEN /\ chunk' = stream.chunks[requested + 1]
          /\ requested' = requested + 1
          /\ pc' = "streamEdit"
     ELSE /\ pc' = (IF stream.throws THEN "streamFailed" ELSE "streamDone")
          /\ UNCHANGED <<chunk, requested>>
  /\ UNCHANGED <<buffer, selection, stream, smode, replacementText,
                 initialSelection, currentSelection, committed>>
  /\ UNCHANGED <<evars, avars, dvars, nvars, cvars, rvars>>

\* streamAppend's loop body: await editor.edit(insert at selection.active);
\* the editor moves the ends of the selection that sit at or after the
\* insertion point behind the inserted text
StreamAppendEdit ==
  /\ pc = "streamEdit" /\ smode = "append"
  /\ LET pos == selection.active
         Shift(o) == IF o >= pos THEN o + Len(chunk) ELSE o
     IN  /\ buffer' = applyEdit(buffer, pos, pos, chunk)
         /\ selection' = [anchor |-> Shift(selection.anchor),
                          active |-> Shift(selection.active)]
  /\ committed' = committed + 1
  /\ pc' = "streamNext"
  /\ UNCHANGED <<stream, smode, chunk, replacementText, initialSelection,
                 currentSelection, requested>>
  /\ UNCHANGED <<evars, avars, dvars, nvars, cvars, rvars>>

\* streamReplace's loop body: accumulate, await editor.edit(replace
\* currentSelection), then move currentSelection and editor.selection to
\* cover the replacement
StreamReplaceEdit ==
  /\ pc = "streamEdit" /\ smode = "replace"
  /\ LET text == Accumulate(replacementText, chunk)
         edited == applyEdit(buffer, StartOf(currentSelection),
                             EndOf(currentSelection), text)
         offset == StartOf(initialSelection) + Len(text)
         newEnd == IF offset < Len(edited) THEN offset ELSE Len(edited)
     IN  /\ replacementText' = text
         /\ buffer' = edited
         /\ currentSelection' =
              [anchor |-> StartOf(initialSelection), active |-> newEnd]
         /\ selection' = currentSelection'
  /\ committed' = committed + 1
  /\ pc' = "streamNext"
  /\ UNCHANGED <<stream, smode, chunk, initialSelection, requested>>
  /\ UNCHANGED <<evars, avars, dvars, nvars, cvars, rvars>>

NextStream ==
  \/ StreamNext
  \/ StreamAppendEdit
  \/ StreamReplaceEdit

SpecStream == InitStream /\ [][NextStream]_vars

\* ------------------------------------------------------------------------
\* SpecTool: the pure functions of tool.ts applied to bounded inputs
\* ------------------------------------------------------------------------
\* Array.prototype.join
RECURSIVE join(_, _)
join(strings, sep) ==
  IF strings = <<>> THEN ""
  ELSE IF Len(strings) = 1 THEN strings[1]
  ELSE strings[1] \o sep \o join(Tail(strings), sep)

\* `${JSON.stringify(v)}`: JSON.stringify returns undefined for undefined
\* and for a function, which the template literal renders as "undefined";
\* inside an array such an element is null, inside an object it is left out
RECURSIVE stringify(_)
stringify(v) ==
  LET Absent(x) == x.k \in {"undefined", "fn"}
  IN  CASE v.k = "num" -> ToString(v.n)
        [] v.k = "string" -> "\"" \o v.f \o "\""
        [] v.k = "boolean" -> v.f
        [] v.k = "null" -> "null"
        [] v.k = "tuple" ->
             "[" \o join([i \in 1..Len(v.items) |->
                            IF Absent(v.items[i]) THEN "null"
                            ELSE stringify(v.items[i])], ",") \o "]"
        [] v.k = "object" ->
             LET kept == SelectSeq(v.items, LAMBDA e : ~Absent(e.val))
             IN  "{" \o join([i \in 1..Len(kept) |->
                                "\"" \o kept[i].key \o "\":"
                                  \o stringify(kept[i].val)], ",") \o "}"
        [] OTHER -> "undefined"

descriptionWithExamples_skipFirst(description, examples) ==
  LET RECURSIVE lines(_)
      lines(index) ==
        IF index = 0 THEN <<description, "", "Examples:">>
        ELSE lines(index - 1) \o
             (IF index > 1
              THEN <<"", "Input: " \o stringify(examples[index].input),
                     "Output: " \o stringify(examples[index].output)>>
              ELSE <<>>)
  IN  lines(Len(examples))
\* Tool.descriptionWithExamples
descriptionWithExamples(description, examples) ==
  LET RECURSIVE lines(_)
      lines(index) ==
        IF index = 0 THEN <<description, "", "Examples:">>
        ELSE lines(index - 1) \o (IF index > 1 THEN <<"">> ELSE <<>>) \o
             <<"Input: " \o stringify(examples[index].input),
               "Output: " \o stringify(examples[index].output)>>
  IN  lines(Len(examples))

\* detectSchema.  A JSONSchema is its type and its properties [key, val] in
\* insertion order (none when the schema has no properties field; type "" when
\* it has no type field); a thrown Error is the type "Error"
RECURSIVE detectSchema(_)
detectSchema_typeof(obj) ==
  IF obj.k = "tuple" THEN [type |-> "object", properties |-> <<>>]
  ELSE IF obj.k = "num" THEN [type |-> "number", properties |-> <<>>]
  ELSE IF obj.k = "object"
  THEN [type |-> "object",
        properties |-> [i \in 1..Len(obj.items) |->
                          [key |-> obj.items[i].key,
                           val |-> detectSchema(obj.items[i].val)]]]
  ELSE [type |-> obj.k, properties |-> <<>>]
detectSchema(obj) ==
  LET build(type, properties) == [type |-> type, properties |-> properties]
  IN  CASE obj.k = "null" -> build("null", <<>>)
        [] obj.k = "string" -> build("string", <<>>)
        [] obj.k = "num" -> build("number", <<>>)
        [] obj.k = "boolean" -> build("boolean", <<>>)
        [] obj.k = "tuple" ->
             LET itemSchema == IF Len(obj.items) > 0
                               THEN detectSchema(obj.items[1])
                               ELSE build("", <<>>)
             IN  IF itemSchema.type = "Error" THEN itemSchema
                 ELSE build("array", <<[key |-> "items", val |-> itemSchema]>>)
        [] obj.k = "object" ->
             LET props == [i \in 1..Len(obj.items) |->
                             [key |-> obj.items[i].key,
                              val |-> detectSchema(obj.items[i].val)]]
             IN  IF \E i \in 1..Len(props) : props[i].val.type = "Error"
                 THEN build("Error", <<>>)
                 ELSE build("object", props)
        [] OTHER -> build("Error", <<>>)

\* the sample values handed to detectSchema
Samples ==
  LET Atoms == {[k |-> "null", f |-> "", n |-> 0, items |-> <<>>],
                [k |-> "boolean", f |-> "true", n |-> 0, items |-> <<>>],
                Num(0), Text("a"), Tuple(<<>>), Tuple(<<Num(0)>>), Undefined}
      Keys == {"value", "name", "id"}
      KeyLists == {ks \in SeqsUpTo(Keys, MaxProps) :
                     \A i, j \in 1..Len(ks) : i # j => ks[i] # ks[j]}
      Flat == UNION {{Obj([i \in 1..Len(ks) |-> [key |-> ks[i], val |-> vs[i]]]) :
                        vs \in [1..Len(ks) -> Atoms]} : ks \in KeyLists}
      Small == {o \in Flat : Len(o.items) <= 1}
  IN  Atoms \cup Flat
        \cup {Obj(<<[key |-> key, val |-> o]>>) : key \in Keys, o \in Small}
        \cup {Tuple(<<o>>) : o \in Small}

\* the examples a tool can declare
Examples ==
  [input : {Num(1), Text("a"), Undefined, Tuple(<<Num(1), Undefined>>),
            Obj(<<[key |-> "value", val |-> Num(2)]>>)},
   output : {Num(2), Text("b"), Undefined,
             Obj(<<[key |-> "result", val |-> Num(4)],
                   [key |-> "skip", val |-> Undefined]>>)}]

InitTool ==
  /\ NavIdle /\ pc = "tool" /\ plan = ""
  /\ EffectIdle /\ AgentIdle /\ DispatchIdle /\ StreamIdle
  /\ ConcIdle /\ AppIdle

\* decideTool serialising one tool for the Model:
\* description: t.descriptionWithExamples().join('\n')
Describe ==
  /\ pc = "tool" /\ nop = "none"
  /\ \E description \in {"A tool for testing", ""},
        examples \in SeqsUpTo(Examples, MaxExamples) :
       /\ nin' = [description |-> description, examples |-> examples]
       /\ nout' = join(descriptionWithExamples(description, examples), "\n")
  /\ nop' = "describe"
  /\ UNCHANGED <<doc, cursor, evars, avars, dvars, svars, cvars, rvars, pc>>

\* detectSchema(sample), as the tools call it when they are declared
DetectSchema ==
  /\ pc = "tool" /\ nop = "none"
  /\ \E sample \in Samples :
       /\ nin' = sample
       /\ nout' = detectSchema(sample)
  /\ nop' = "detectSchema"
  /\ UNCHANGED <<doc, cursor, evars, avars, dvars, svars, cvars, rvars, pc>>

\* Tool.mapA: Tool.create(this.name, this.description, this.inputSchema,
\* i => f(this.action(i))) - the examples argument takes its default, []
mapA_keepExamples(this) == this
mapA(this) ==
  [name |-> this.name, description |-> this.description,
   inputSchema |-> this.inputSchema, examples |-> <<>>]

\* map, sideEffect and debug all return this.mapA(...)
ToolMethods == {"map", "mapA", "sideEffect", "debug"}

\* a declared tool is passed through one of the four methods (Agent._stepMap
\* uses map) and the derived tool is serialised for the Model
Derive ==
  /\ pc = "tool" /\ nop = "none"
  /\ \E method \in ToolMethods, sample \in {Num(0), Text("a")},
        examples \in SeqsUpTo(Examples, MaxExamples) :
       LET tool == [name |-> "next_problem",
                    description |-> "A tool for testing",
                    inputSchema |-> detectSchema(sample),
                    examples |-> examples]
           derived == mapA(tool)
       IN  /\ nin' = [method |-> method, tool |-> tool]
           /\ nout' = [tool |-> derived,
                       description |->
                         join(descriptionWithExamples(derived.description,
                                                      derived.examples), "\n")]
  /\ nop' = "derive"
  /\ UNCHANGED <<doc, cursor, evars, avars, dvars, svars, cvars, rvars, pc>>

NextTool ==
  \/ Describe
  \/ DetectSchema
  \/ Derive

SpecTool == InitTool /\ [][NextTool]_vars

\* ------------------------------------------------------------------------
\* SpecConc: one execution of sequence(...ein) with its branches running
\* concurrently.  actions.map(action => action.execute(editor)) has started
\* every branch; ein[i] is what branch i settles with, and the branches
\* settle in any order.
\* ------------------------------------------------------------------------
Branches ==
  {pure(Num(1)), pure(Num(2)), cancel, fail("boom"), fail("Operation failed")}

InitConc ==
  /\ eop = "sequence"
  /\ ein \in SeqsUpTo(Branches, MaxArity)
  /\ ecb = "" /\ eres = NoExec /\ earg = Undefined
  \* Promise.all of an empty array is fulfilled at once
  /\ all = IF ein = <<>> THEN [state |-> "fulfilled", msg |-> ""] ELSE Pending
  /\ settled = <<>>
  /\ pc = "conc" /\ plan = ""
  /\ AgentIdle /\ DispatchIdle /\ NavIdle /\ StreamIdle /\ AppIdle

Unsettled == {i \in Indices(ein) : \A k \in Indices(settled) : settled[k] # i}

\* Promise.all: rejected by the first branch that rejects, fulfilled when
\* the last branch resolves; a settled promise never changes
PromiseAll_allSettled(state, branch, last) ==
  IF state.state # "pending" \/ ~last THEN state
  ELSE LET bad == {k \in Indices(settled) : ein[settled[k]].res.type = "fatal"}
       IN  IF bad # {}
           THEN [state |-> "rejected",
                 msg |-> ein[settled[CHOOSE k \in bad : \A j \in bad : k <= j]].res.msg]
           ELSE IF branch.res.type = "fatal"
                THEN [state |-> "rejected", msg |-> branch.res.msg]
           ELSE [state |-> "fulfilled", msg |-> ""]
PromiseAll_race(state, branch, last) ==
  IF state.state # "pending" THEN state
  ELSE IF branch.res.type = "fatal"
       THEN [state |-> "rejected", msg |-> branch.res.msg]
  ELSE [state |-> "fulfilled", msg |-> ""]
PromiseAll(state, branch, last) ==
  IF state.state # "pending" THEN state
  ELSE IF branch.res.type = "fatal"
       THEN [state |-> "rejected", msg |-> branch.res.msg]
  ELSE IF last THEN [state |-> "fulfilled", msg |-> ""]
  ELSE state

\* one branch's execute(editor) runs to its end: whatever it does to the
\* editor is done, and its promise resolves or rejects
Settle ==
  /\ pc = "conc"
  /\ \E i \in Unsettled :
       /\ settled' = Append(settled, i)
       /\ all' = PromiseAll(all, ein[i], Unsettled = {i})
  /\ UNCHANGED <<evars, avars, dvars, nvars, svars, rvars, pc>>

\* what sequence's async function returns once `await Promise.all(...)`
\* has a value: results is in input order
Results_completionOrder(actions) ==
  LET n == SumCalls(actions)
  IN  IF \E i \in Indices(actions) : actions[i].res.type = "cancelled"
      THEN Exec(cancellation, n)
      ELSE Exec(success(Tuple([k \in Indices(settled) |-> actions[settled[k]].res.value])), n)
Results(actions) ==
  LET n == SumCalls(actions)
  IN  IF \E i \in Indices(actions) : actions[i].res.type = "cancelled"
      THEN Exec(cancellation, n)
      ELSE Exec(success(Tuple([i \in Indices(actions) |-> actions[i].res.value])), n)

\* the await in sequence returns or throws: the composed Action settles
Resume ==
  /\ pc = "conc" /\ all.state # "pending" /\ eres = NoExec
  /\ eres' = IF all.state = "rejected"
             THEN Exec(rejection(all.msg), SumCalls(ein))
             ELSE Results(ein)
  /\ UNCHANGED <<eop, ein, ecb, earg, avars, dvars, nvars, svars, cvars,
                 rvars, pc>>

NextConc ==
  \/ Settle
  \/ Resume

SpecConc == InitConc /\ [][NextConc]_vars
\* every started branch runs on, and the awaiting function is resumed
SpecConcFair ==
  InitConc /\ [][NextConc]_vars /\ WF_vars(Settle) /\ WF_vars(Resume)

\* ------------------------------------------------------------------------
\* SpecApp: the commands registered by activate, one handler at a time.
\* A handler awaits cmd.action.execute(editor) and then tracks cmd.
\* ------------------------------------------------------------------------
\* App.commands(): three of the registered names
Commands == {"cursor", "fix", "repeat"}

\* App.trackCommand: unshift, then pop when longer than maxHistorySize
trackCommand(history, command) ==
  LET unshifted == <<command>> \o history
  IN  IF Len(unshifted) > maxHistorySize
      THEN SubSeq(unshifted, 1, Len(unshifted) - 1)
      ELSE unshifted

InitApp ==
  /\ commandHistory = <<>> /\ cmd = "" /\ at = "" /\ ran = <<>>
  /\ result = "none"
  /\ pc = "app" /\ plan = ""
  /\ EffectIdle /\ AgentIdle /\ DispatchIdle /\ NavIdle /\ StreamIdle
  /\ ConcIdle

\* the callback given to registerCommand starts: cmd.action.execute(editor)
Invoke ==
  /\ pc = "app" /\ cmd = ""
  /\ \E name \in Commands :
       /\ cmd' = name /\ at' = name /\ ran' = <<name>>
  /\ result' = "none"
  /\ UNCHANGED <<commandHistory, evars, avars, dvars, nvars, svars, cvars, pc>>

\* App.repeat executed: the lifted function reads commandHistory[0] and
\* returns lastCommand.action, or fail(...) when there is none, and
\* bind(a => a) executes what it returned
Repeat ==
  /\ pc = "app" /\ cmd # "" /\ at = "repeat" /\ result = "none"
  /\ Len(ran) < MaxReplay
  /\ IF commandHistory = <<>>
     THEN /\ result' = "No previous command to repeat"
          /\ UNCHANGED <<at, ran>>
     ELSE /\ at' = commandHistory[1]
          /\ ran' = Append(ran, commandHistory[1])
          /\ UNCHANGED result
  /\ UNCHANGED <<commandHistory, cmd, evars, avars, dvars, nvars, svars, cvars, pc>>

\* the action of any other command runs to its end: it resolves to Success
\* or Cancelled, or throws
RunCommand ==
  /\ pc = "app" /\ cmd # "" /\ at \notin {"", "repeat"} /\ result = "none"
  /\ result' \in {"success", "cancelled", "Operation failed"}
  /\ UNCHANGED <<commandHistory, cmd, at, ran, evars, avars, dvars, nvars,
                 svars, cvars, pc>>

\* the handler after its await: a result (Cancelled is only reported) is
\* followed by app.trackCommand(cmd); a thrown error leaves the handler
\* before that line
HandlerReturns ==
  /\ pc = "app" /\ cmd # "" /\ result # "none"
  /\ commandHistory' = IF result \in {"success", "cancelled"}
                       THEN trackCommand(commandHistory, cmd)
                       ELSE commandHistory
  /\ cmd' = ""
  /\ UNCHANGED <<at, ran, result, evars, avars, dvars, nvars, svars, cvars, pc>>

NextApp ==
  \/ Invoke
  \/ Repeat
  \/ RunCommand
  \/ HandlerReturns

SpecApp == InitApp /\ [][NextApp]_vars

\* ------------------------------------------------------------------------
\* Properties of the effect core (checked under SpecEffect)
\* ------------------------------------------------------------------------
SomeCancelled(actions) == \E i \in Indices(actions) : actions[i].res.type = "cancelled"
SomeFatal(actions) == \E i \in Indices(actions) : actions[i].res.type = "fatal"

\* C1: when a resolves to Cancelled, executing a.bind(f) resolves to
\* Cancelled and f is not invoked (no callback invocation is added to a's).
C1_BindShortCircuits ==
  (eop = "bind" /\ ein[1].res.type = "cancelled")
    => (eres.res = cancellation /\ eres.calls = ein[1].calls)
C1_Witness ==
  eop = "bind" /\ ein[1] = cancel /\ ecb = "pure" /\ eres.res.type = "cancelled"

\* C2: when a resolves to Cancelled, executing a.map(f) resolves to
\* Cancelled and f is called zero times.
C2_MapNoOpUnderCancellation ==
  (eop = "map" /\ ein[1].res.type = "cancelled")
    => (eres.res = cancellation /\ eres.calls = ein[1].calls)
C2_Witness ==
  eop = "map" /\ ein[1] = cancel /\ ecb = "addOne" /\ eres.res.type = "cancelled"

\* C3 as stated: whenever some input of sequence resolves to Cancelled, the
\* sequence resolves to Cancelled.
C3_Original ==
  (eop = "sequence" /\ SomeCancelled(ein)) => eres.res = cancellation
\* C3 amended: with a cancelled input, sequence never resolves to Success;
\* it resolves to Cancelled when no input raises a fatal error, and fails
\* with the fatal error of one of its inputs otherwise.
C3_SequenceCancelled ==
  (eop = "sequence" /\ SomeCancelled(ein))
    => /\ eres.res.type # "success"
       /\ ~SomeFatal(ein) => eres.res = cancellation
       /\ SomeFatal(ein) =>
            \E i \in Indices(ein) :
              ein[i].res.type = "fatal" /\ eres.res = ein[i].res
C3_Witness ==
  /\ eop = "sequence"
  /\ ein = <<pure(Num(1)), cancel, pure(Num(3))>>
  /\ eres.res = cancellation

\* C5: F.apply(V), with F succeeding with a function f and V succeeding
\* with a number x, resolves to Success(f(x)): x + 1 for addOne, the
\* closure adding x for the curried add, and add applied to x then y
\* resolves to Success(x + y).
C5_ApplyBase ==
  /\ (eop = "apply" /\ ein[1] = pure(AddOne)
        /\ ein[2].res.type = "success" /\ ein[2].res.value.k = "num")
       => eres.res = success(Num(ein[2].res.value.n + 1))
  /\ (eop = "apply" /\ ein[1] = pure(Add)
        /\ ein[2].res.type = "success" /\ ein[2].res.value.k = "num")
       => eres.res = success(AddTo(ein[2].res.value))
  /\ (eop = "applyChain" /\ ein[1] = pure(Add)
        /\ ein[2].res.type = "success" /\ ein[2].res.value.k = "num"
        /\ ein[3].res.type = "success" /\ ein[3].res.value.k = "num")
       => eres.res = success(Num(ein[2].res.value.n + ein[3].res.value.n))
C5_Witness ==
  /\ eop = "applyChain"
  /\ ein = <<pure(Add), pure(Num(3)), pure(Num(4))>>
  /\ eres.res = success(Num(7))

\* C6: V.apply(F), with V succeeding with a number x and F succeeding with
\* addOne, resolves to Success(x + 1) (five.apply(addOne) is Success(6)).
C6_ApplyFlipped ==
  (eop = "apply" /\ ein[2] = pure(AddOne)
     /\ ein[1].res.type = "success" /\ ein[1].res.value.k = "num")
    => eres.res = success(Num(ein[1].res.value.n + 1))

\* C7 as stated: when the receiver or the argument of apply resolves to
\* Cancelled, apply resolves to Cancelled.
C7_Original ==
  (eop = "apply" /\ SomeCancelled(ein)) => eres.res = cancellation
\* C7 amended: when either side of apply resolves to Cancelled, apply never
\* resolves to Success and never invokes the function; it resolves to
\* Cancelled unless the other side raises a fatal error, and then it fails
\* with that error.
C7_ApplyCancelled ==
  (eop = "apply" /\ SomeCancelled(ein))
    => /\ eres.res.type # "success"
       /\ eres.calls = 0
       /\ ~SomeFatal(ein) => eres.res = cancellation
       /\ SomeFatal(ein) =>
            \E i \in Indices(ein) :
              ein[i].res.type = "fatal" /\ eres.res = ein[i].res
C7_Witness ==
  /\ eop = "apply"
  /\ ein = <<pure(Num(5)), cancel>>
  /\ eres.res = cancellation

\* ------------------------------------------------------------------------
\* Properties of the Agent loop (checked under SpecAgent)
\* ------------------------------------------------------------------------
MaxRoundsReached == run = [type |-> "fatal", msg |-> "Max rounds reached"]

\* C4: with maxRounds = M, every round up to M builds its prompt and
\* dispatches, an Intermediate envelope is followed by another step, and the
\* step after round M fails with "Max rounds reached" without building a
\* prompt or dispatching; no run dispatches or runs a tool more than M times.
C4_RoundInvariant ==
  /\ dispatches <= maxRounds
  /\ Len(executed) <= maxRounds
  /\ pc \in {"prompt", "model", "parse", "approveInput", "execute",
             "approveOutput", "returned"} => rounds \in 1..maxRounds
  /\ pc = "step" => rounds <= maxRounds
  /\ MaxRoundsReached =>
       /\ rounds = maxRounds + 1
       /\ prompts = maxRounds /\ dispatches = maxRounds
       /\ Len(executed) = maxRounds /\ Len(messageHistory) = maxRounds
       /\ \A i \in Indices(messageHistory) : messageHistory[i].tool # "finish"
C4_StepAction ==
  /\ (pc = "step" /\ rounds < maxRounds) =>
       (pc' = "prompt" /\ run' = run)
  /\ (pc = "step" /\ rounds = maxRounds) =>
       /\ pc' = "done" /\ MaxRoundsReached'
       /\ prompts' = prompts /\ dispatches' = dispatches
       /\ executed' = executed /\ pc' # "prompt"
  /\ (pc = "returned" /\ dres.type = "success"
        /\ dres.value.output.type = Intermediate) => pc' = "step"
C4_RoundBudget == []C4_RoundInvariant /\ [][C4_StepAction]_vars
C4_Witness ==
  /\ MaxRoundsReached /\ maxRounds = 2 /\ rounds = 3
  /\ dispatches = 2 /\ Len(executed) = 2

\* C8: the Agent's plan is exactly the plan string of the most recent
\* setPlan invocation ('' before the first): each invocation replaces it.
SetPlanCalls == SelectSeq(executed, LAMBDA e : e.name = "setPlan")
C8_PlanReplaced ==
  plan = IF SetPlanCalls = <<>> THEN ""
         ELSE SetPlanCalls[Len(SetPlanCalls)].input.plan
C8_Witness ==
  /\ Len(SetPlanCalls) = 2
  /\ SetPlanCalls[1].input.plan = "plan A"
  /\ SetPlanCalls[2].input.plan = "plan B"
  /\ plan = "plan B"

\* ------------------------------------------------------------------------
\* Properties of Model Dispatch (checked under SpecDispatch)
\* ------------------------------------------------------------------------
\* the tool implementations run by the current decideTool call
ThisDispatch == SubSeq(executed, mark + 1, Len(executed))
Parsed == pc \notin {"model", "parse"} /\ dres # Rejected("Error deciding tool")

ToolUseCount == Cardinality({i \in Indices(content) : content[i].type # "text"})
\* i is the place of the first tool invocation of the response
IsFirstInvocation(i) ==
  /\ i \in Indices(content)
  /\ content[i].type # "text"
  /\ \A j \in 1..(i - 1) : content[j].type = "text"
Provided(name) == \E k \in Indices(tools) : tools[k].name = name

\* C9: a response without a tool invocation, or whose (first) invocation
\* names a tool absent from the tool list, makes the dispatch fail fatally
\* and no tool implementation is run.
C9_NoToolOrUnknownFails ==
  /\ (Parsed /\ ToolUseCount = 0) =>
       /\ pc = "returned" /\ dres = Rejected("No tool was chosen")
       /\ ThisDispatch = <<>>
  /\ \A i \in Indices(content) :
       (Parsed /\ IsFirstInvocation(i) /\ ~Provided(content[i].name)) =>
         /\ pc = "returned" /\ dres.type = "fatal"
         /\ ThisDispatch = <<>>
C9_Witness ==
  /\ pc = "returned" /\ tools = toolkit
  /\ content = <<ToolUse("bogus", NoInput), ToolUse("finish", [plan |-> "", summary |-> "all done"])>>
  /\ dres.type = "fatal" /\ executed = <<>>

\* C10 as stated: a response with several tool invocations makes the
\* dispatch run exactly one tool implementation, that of the first
\* invocation with its input.
C10_Original ==
  \A i \in Indices(content) :
    (pc = "returned" /\ Parsed /\ ToolUseCount >= 2 /\ IsFirstInvocation(i)) =>
      /\ Len(ThisDispatch) = 1
      /\ ThisDispatch[1].name = content[i].name
      /\ ThisDispatch[1].input = content[i].input
\* C10 amended: a response with several tool invocations makes the dispatch
\* run at most one tool implementation, and only ever the tool named by the
\* first invocation with that invocation's input; it runs exactly one when
\* the first invocation names a provided tool and, in interactive mode, the
\* user continued at the input gate, and none otherwise.
C10_OnlyFirstHonored ==
  \A i \in Indices(content) :
    (Parsed /\ ToolUseCount >= 2 /\ IsFirstInvocation(i)) =>
      /\ Len(ThisDispatch) <= 1
      /\ \A e \in Indices(ThisDispatch) :
           /\ ThisDispatch[e].name = content[i].name
           /\ ThisDispatch[e].input = content[i].input
           /\ tools[ThisDispatch[e].idx].name = content[i].name
      /\ pc \in {"approveOutput", "returned"} =>
           (Len(ThisDispatch) = 1 <=>
              /\ Provided(content[i].name)
              /\ interactive => (gates # <<>> /\ gates[1] = "continue"))
      /\ dres.type = "success" =>
           /\ dres.value.tool = content[i].name
           /\ dres.value.input = content[i].input
C10_Witness ==
  /\ pc = "returned"
  /\ content = <<ToolUse("setPlan", [plan |-> "plan A", summary |-> ""]),
                 ToolUse("setPlan", [plan |-> "plan B", summary |-> ""])>>
  /\ Len(executed) = 1
  /\ executed[1].input.plan = "plan A"
  /\ plan = "plan A"
  /\ dres.type = "success"

\* C11: in interactive dispatch the tool implementation runs only after the
\* user approved the surfaced input, and a result is returned only after the
\* user approved the surfaced output; an abort at the input gate resolves
\* the dispatch to Cancelled with the tool never invoked, an abort at the
\* output gate resolves it to Cancelled; an abort never ends it fatally.
C11_Invariant ==
  interactive =>
    /\ Len(gates) <= 2
    /\ pc = "execute" => gates = <<"continue">>
    /\ ThisDispatch # <<>> =>
         /\ gates # <<>> /\ gates[1] = "continue"
         /\ Len(ThisDispatch) = 1
         /\ ThisDispatch[1].input = call.input
    /\ dres.type = "success" =>
         /\ gates = <<"continue", "continue">>
         /\ Len(ThisDispatch) = 1
    /\ gates = <<"abort">> =>
         /\ pc = "returned" /\ dres = Cancelled
         /\ ThisDispatch = <<>>
    /\ gates = <<"continue", "abort">> =>
         /\ pc = "returned" /\ dres = Cancelled
C11_Action ==
  interactive =>
    /\ executed' # executed => (pc = "execute" /\ gates = <<"continue">>)
    /\ (dres.type # "success" /\ dres'.type = "success") =>
         (pc = "approveOutput" /\ gates' = <<"continue", "continue">>)
C11_ApprovalGates == []C11_Invariant /\ [][C11_Action]_vars
C11_Witness ==
  /\ interactive /\ pc = "returned"
  /\ gates = <<"continue", "abort">>
  /\ dres = Cancelled
  /\ Len(ThisDispatch) = 1 /\ ThisDispatch[1].name = "setPlan"

\* ------------------------------------------------------------------------
\* Cancellation and termination of the Agent loop (checked under SpecAgent)
\* ------------------------------------------------------------------------
\* the user dismissed the approval prompt of the current dispatch
UserAborted == gates # <<>> /\ gates[Len(gates)] = "abort"
RunCancelled == run = [type |-> "cancelled", msg |-> ""]

\* C12 as stated: when the user cancels an approval step of a round, the
\* loop does not end the run but goes on to the next round, and the history
\* gains an entry for the cancelled round.
C12_OriginalStep ==
  (pc = "returned" /\ dres = Cancelled /\ UserAborted) =>
    /\ pc' = "step" /\ run' = NoRun
    /\ Len(messageHistory') = Len(messageHistory) + 1
C12_Step ==
  /\ (pc = "returned" /\ dres = Cancelled /\ UserAborted) =>
       /\ pc' = "done" /\ RunCancelled'
       /\ messageHistory' = messageHistory
       /\ rounds' = rounds /\ prompts' = prompts
       /\ dispatches' = dispatches /\ executed' = executed
  /\ pc # "done"
RunDone == run = [type |-> "success", msg |-> ""]
C13_Invariant ==
  /\ \A i \in Indices(tools) :
       tools[i].type = IF tools[i].name = "finish" THEN Finished ELSE Intermediate
  /\ dres.type = "success" =>
       dres.value.output.type =
         IF dres.value.tool = "finish" THEN Finished ELSE Intermediate
  /\ RunDone <=>
       \E i \in Indices(messageHistory) : messageHistory[i].tool = "finish"
  /\ RunDone =>
       /\ pc = "done"
       /\ messageHistory[Len(messageHistory)].tool = "finish"
       /\ \A i \in 1..(Len(messageHistory) - 1) :
            messageHistory[i].tool # "finish"
C13_Action ==
  /\ (pc = "returned" /\ dres.type = "success"
        /\ dres.value.output.type = Finished) =>
       /\ pc' = "done" /\ RunDone'
       /\ rounds' = rounds /\ prompts' = prompts /\ dispatches' = dispatches
       /\ executed' = executed /\ plan' = plan /\ goal' = goal
  /\ (pc = "returned" /\ dres.type = "success"
        /\ dres.value.output.type = Intermediate) =>
       /\ pc' = "step" /\ run' = NoRun
  /\ pc = "step" => rounds' = rounds + 1
  /\ ~RunDone
C13_StopsOnFinish == []C13_Invariant /\ [][C13_Action]_vars
C13_Witness ==
  /\ RunDone /\ pc = "done"
  /\ Len(messageHistory) = 2
  /\ messageHistory[1].tool = "cursor_location"
  /\ messageHistory[2].tool = "finish"
  /\ rounds = 2 /\ dispatches = 2

\* ------------------------------------------------------------------------
\* Recovery, pure and Tool.wrap (checked under SpecEffect)
\* ------------------------------------------------------------------------
\* the outcome of the fallback Action.defer(f), for each callback f
FallbackOutcome(f) ==
  CASE f = "pure" -> success(Undefined)
    [] f = "cancel" -> cancellation
    [] OTHER -> rejection("Operation failed")

\* C14: a.or(fallback) resolves to a's Success without executing fallback
\* when a succeeds; when a resolves to Cancelled or raises a fatal error the
\* fallback is executed and its outcome (Success, Cancelled or fatal) is the
\* result.
C14_OrFallback ==
  eop = "or" =>
    /\ ein[1].res.type = "success" =>
         (eres.res = ein[1].res /\ eres.calls = ein[1].calls)
    /\ ein[1].res.type \in {"cancelled", "fatal"} =>
         (eres.res = FallbackOutcome(ecb) /\ eres.calls = ein[1].calls + 1)
C14_Witness ==
  /\ eop = "or" /\ ein[1] = fail("boom") /\ ecb = "pure"
  /\ eres.res = success(Undefined) /\ eres.calls = 1

\* C15 as stated: no combinator (bind, map, sequence, apply, or, sideEffect)
\* turns a fatal failure of its receiver into a Success or Cancelled outcome.
C15_Original ==
  (eop \in {"bind", "map", "sequence", "apply", "or", "sideEffect"}
     /\ ein # <<>> /\ ein[1].res.type = "fatal")
    => eres.res.type = "fatal"
\* C15 amended: bind, map, sideEffect, sequence and apply never turn a fatal
\* failure of their receiver (for sequence and apply: of any input) into
\* Success or Cancelled - they fail with that error and invoke no callback;
\* or is the one combinator that recovers: on a fatal failure of its
\* receiver it executes the fallback, whose outcome is the result.
C15_FatalPropagates ==
  /\ (eop \in {"bind", "map", "sideEffect"} /\ ein[1].res.type = "fatal")
       => eres = ein[1]
  /\ (eop \in {"sequence", "apply"} /\ SomeFatal(ein))
       => /\ eres.calls = 0
          /\ \E i \in Indices(ein) :
               ein[i].res.type = "fatal" /\ eres.res = ein[i].res
  /\ (eop = "or" /\ ein[1].res.type = "fatal")
       => eres.res = FallbackOutcome(ecb)
C15_Witness ==
  /\ eop = "sideEffect" /\ ein[1] = fail("boom") /\ ecb = "log"
  /\ eres.res = rejection("boom") /\ eres.calls = 0

\* C16: given a zero-argument computation, executing pure(computation) runs
\* it and resolves to Success carrying its result.
C16_PureRunsThunk ==
  (eop = "pure" /\ earg.k = "fn" /\ earg.f = "thunk")
    => eres.res = success(earg.items[1])

AxisResolved(now, delta, value) ==
  IF value.def THEN value.n ELSE IF delta.def THEN now + delta.n ELSE now
TranslateOk ==
  /\ nout.type = "success"
  /\ nout.line = AxisResolved(cursor.line, nin.lineDelta, nin.lineValue)
  /\ nout.character =
       AxisResolved(cursor.character, nin.characterDelta, nin.characterValue)

\* C18 as stated: translate_cursor resolves each axis independently - the
\* absolute value if given, else current + delta, else unchanged - whatever
\* the deltas and values are.
C18_Original == nop = "translate_cursor" => TranslateOk

\* C18: translate_cursor resolves each axis independently (the absolute
\* value if given, else current + delta, else unchanged) whenever cursor +
\* delta has no negative coordinate and no absolute value is negative; in
\* every other case the tool fails with a fatal error and yields no position.
C18_TranslateCursor ==
  nop = "translate_cursor" =>
    IF /\ cursor.line + nin.lineDelta.n >= 0
       /\ cursor.character + nin.characterDelta.n >= 0
       /\ nin.lineValue.n >= 0 /\ nin.characterValue.n >= 0
    THEN TranslateOk
    ELSE nout.type = "fatal"
\* the example of the claim: cursor (5, 10), {lineDelta: 2, lineValue: 0}
C18_Witness ==
  /\ nop = "translate_cursor" /\ cursor = Position(5, 10)
  /\ nin = [lineDelta |-> Some(2), characterDelta |-> None,
            lineValue |-> Some(0), characterValue |-> None]
  /\ nout = Moved(Position(0, 10))

\* the last position of the document, and a position lying inside it
InDoc(position) ==
  /\ position.line < Len(doc)
  /\ position.character <= doc[position.line + 1]
PastEnd(position) ==
  isBefore(Position(Len(doc) - 1, doc[Len(doc)]), position)
FirstLine == IF nin.range.start.line - nin.n < 0 THEN 0
             ELSE nin.range.start.line - nin.n

\* C19 as stated: for every document, every target range and every n >= 0,
\* before starts at column 0 of line max(0, target.start.line - n), never
\* on a negative line, and after never extends past the end of the last
\* line.
C19_Original ==
  nop = "surrounding_ctx" =>
    /\ nout.before.start = Position(FirstLine, 0)
    /\ nout.before.start.line >= 0
    /\ ~PastEnd(nout.after.end)

\* C19: for every document, every target range and every n >= 0, before
\* starts at column 0 of line min(lineCount - 1, max(0, target.start.line -
\* n)) - never on a negative line, and on line max(0, target.start.line - n)
\* whenever the target starts inside the document - and after ends at the
\* later of target.end and the end of line min(lineCount - 1,
\* target.start.line + n), so it extends past the end of the last line only
\* when the target range itself does.
C19_SurroundingClamped ==
  nop = "surrounding_ctx" =>
    LET lastLine == Len(doc) - 1
        toLine == IF lastLine < nin.range.start.line + nin.n THEN lastLine
                  ELSE nin.range.start.line + nin.n
        endOfTo == Position(toLine, doc[toLine + 1])
    IN  /\ nout.before.start =
             Position(IF lastLine < FirstLine THEN lastLine ELSE FirstLine, 0)
        /\ nout.before.start.line >= 0
        /\ InDoc(nin.range.start) => nout.before.start = Position(FirstLine, 0)
        /\ nout.before.end = nin.range.start
        /\ nout.target = nin.range
        /\ nout.after.end = (IF isBefore(endOfTo, nin.range.end)
                             THEN nin.range.end ELSE endOfTo)
        /\ PastEnd(nout.after.end) <=> PastEnd(nin.range.end)
\* n larger than the document, on a target inside it off the first line
C19_Witness ==
  /\ nop = "surrounding_ctx" /\ Len(doc) = MaxLines /\ nin.n > Len(doc)
  /\ InDoc(nin.range.start) /\ InDoc(nin.range.end)
  /\ nin.range.start.line = 1
  /\ nout.before = Range(Position(0, 0), nin.range.start)
  /\ nout.after = Range(nin.range.end, Position(Len(doc) - 1, doc[Len(doc)]))

\* ------------------------------------------------------------------------
\* Properties of streaming (checked under SpecStream)
\* ------------------------------------------------------------------------
\* chunks 1..k of the stream, concatenated in order
RECURSIVE Concat(_)
Concat(k) == IF k = 0 THEN <<>> ELSE Concat(k - 1) \o stream.chunks[k]
\* the buffer once k chunks are applied: the streamed text at the cursor
\* (append) or in place of the selected text (replace, from the first chunk)
Streamed(k) ==
  IF smode = "append"
  THEN applyEdit(Original, initialSelection.active, initialSelection.active,
                 Concat(k))
  ELSE IF k = 0 THEN Original
  ELSE applyEdit(Original, StartOf(initialSelection), EndOf(initialSelection),
                 Concat(k))
Streaming == pc \in {"streamNext", "streamEdit", "streamDone", "streamFailed"}

C20_Invariant ==
  Streaming =>
    /\ committed <= requested /\ requested <= committed + 1
    /\ (requested = committed + 1) <=> (pc = "streamEdit")
    /\ pc = "streamEdit" => chunk = stream.chunks[requested]
    /\ buffer = Streamed(committed)
C20_Action ==
  /\ requested' # requested => requested' = requested + 1 /\ committed = requested
  /\ committed' # committed => committed' = committed + 1 /\ committed' = requested

\* C20: streamed text is applied to the buffer chunk by chunk in the order
\* the stream yields the chunks: chunk k+1 is requested only when the edit
\* for chunk k is committed, the edit in flight is the one for the last
\* chunk requested, and after k committed edits the inserted (append) or
\* replacing (replace) text is the concatenation of chunks 1..k in order,
\* the rest of the buffer being untouched.
C20_StreamedInOrder == []C20_Invariant /\ [][C20_Action]_vars
\* streamReplace finished after MaxChunks chunks replaced the selected "x"
C20_Witness ==
  /\ pc = "streamDone" /\ smode = "replace" /\ committed = MaxChunks
  /\ initialSelection = [anchor |-> 1, active |-> 0]
  /\ \A i \in 1..MaxChunks : stream.chunks[i] = <<(IF i = 1 THEN "a" ELSE "b")>>
  /\ buffer = <<"a">> \o [i \in 1..(MaxChunks - 1) |-> "b"] \o <<"y">>

\* ------------------------------------------------------------------------
\* Properties of the tools
\* ------------------------------------------------------------------------
\* C21: directory_ctx resolves to Success with the empty string, not
\* Cancelled and not a fatal error, whenever the document's language has no
\* registered summarizer, and to the summarizer's text when one is
\* registered and succeeds.
C21_DirCtxDegrades ==
  eop = "directory_ctx" =>
    /\ earg.f \notin {"go", "typescript"} => eres.res = success(Text(""))
    /\ (earg.f \in {"go", "typescript"} /\ ein[1].res.type = "success")
         => eres.res = ein[1].res
C21_Witness ==
  /\ eop = "directory_ctx" /\ earg = Text("python")
  /\ ein[1].res = success(Text("type Foo struct"))
  /\ eres.res = success(Text(""))

\* C22 as stated: the output recorded in the history for a setPlan round is
\* the plan string that was set.
C22_Original ==
  \A i \in Indices(messageHistory) :
    messageHistory[i].tool = "setPlan" =>
      messageHistory[i].output = messageHistory[i].input.plan

\* C22: the setPlan tool sets the Agent's plan to the plan it was given and
\* returns an empty object: the history entry of a setPlan round records the
\* empty object as its output and the plan that was set as its input.
C22_Invariant ==
  \A i \in Indices(messageHistory) :
    messageHistory[i].tool = "setPlan" =>
      /\ messageHistory[i].output = "{}"
      /\ messageHistory[i].input.plan # messageHistory[i].output
C22_Action ==
  /\ (pc = "execute" /\ tools[chosen].name = "setPlan") =>
       /\ plan' = pending.input.plan
       /\ pc' \in {"approveOutput", "returned"}
       /\ pc' = "approveOutput" => pending'.output.val = "{}"
  /\ (pc = "returned" /\ dres.type = "success" /\ dres.value.tool = "setPlan") =>
       /\ messageHistory' =
            Append(messageHistory, Message("setPlan", dres.value.input, "{}"))
       /\ plan = dres.value.input.plan /\ plan' = plan
C22_SetPlanOutput == []C22_Invariant /\ [][C22_Action]_vars
C22_Witness ==
  /\ pc = "step" /\ plan = "plan B"
  /\ messageHistory =
       <<Message("setPlan", [plan |-> "plan B", summary |-> ""], "{}")>>

\* the text of examples 1..k: each as an Input line and an Output line, a
\* blank line between two examples
RECURSIVE Rendered(_, _)
Rendered(examples, k) ==
  IF k = 0 THEN ""
  ELSE Rendered(examples, k - 1) \o (IF k > 1 THEN "\n" ELSE "")
         \o "\nInput: " \o stringify(examples[k].input)
         \o "\nOutput: " \o stringify(examples[k].output)

\* C23: the description text sent to the Model for a tool is the tool's
\* description (then a blank line and the heading "Examples:") followed by
\* every declared example rendered as an `Input: <json>` line and an
\* `Output: <json>` line, the examples in declaration order, each exactly
\* once.
C23_DescriptionText ==
  nop = "describe" =>
    nout = nin.description \o "\n\nExamples:"
             \o Rendered(nin.examples, Len(nin.examples))
C23_Witness ==
  /\ nop = "describe"
  /\ nin.examples =
       <<[input |-> Obj(<<[key |-> "value", val |-> Num(2)]>>),
          output |-> Obj(<<[key |-> "result", val |-> Num(4)],
                           [key |-> "skip", val |-> Undefined]>>)],
         [input |-> Num(1), output |-> Num(2)]>>
  /\ nin.description = "A tool for testing"
  /\ nout = "A tool for testing\n\nExamples:\nInput: {\"value\":2}\nOutput: {\"result\":4}\n\nInput: 1\nOutput: 2"

\* the runtime type of a sample value, "" when it is none of the six
RuntimeType(v) ==
  CASE v.k = "string" -> "string"
    [] v.k = "num" -> "number"
    [] v.k = "boolean" -> "boolean"
    [] v.k = "null" -> "null"
    [] v.k = "tuple" -> "array"
    [] v.k = "object" -> "object"
    [] OTHER -> ""
\* every value in the sample has one of the six runtime types
RECURSIVE Typed(_)
Typed(v) ==
  /\ RuntimeType(v) # ""
  /\ v.k = "tuple" => \A i \in 1..Len(v.items) : Typed(v.items[i])
  /\ v.k = "object" => \A i \in 1..Len(v.items) : Typed(v.items[i].val)

\* C24: detectSchema maps a sample value (made of strings, numbers,
\* booleans, null, arrays and plain objects) to a schema whose type is the
\* value's runtime type and, for a plain object, whose properties map every
\* key of the sample, and nothing else, to the schema detected for that key's
\* value.
C24_DetectSchema ==
  (nop = "detectSchema" /\ Typed(nin)) =>
    /\ nout.type = RuntimeType(nin)
    /\ nin.k = "object" =>
         /\ Len(nout.properties) = Len(nin.items)
         /\ \A i \in 1..Len(nin.items) :
              /\ nout.properties[i].key = nin.items[i].key
              /\ nout.properties[i].val = detectSchema(nin.items[i].val)
              /\ nout.properties[i].val.type = RuntimeType(nin.items[i].val)
\* the example of the claim: detectSchema({value: 0})
C24_Witness ==
  /\ nop = "detectSchema"
  /\ nin = Obj(<<[key |-> "value", val |-> Num(0)]>>)
  /\ nout = [type |-> "object",
             properties |-> <<[key |-> "value",
                               val |-> [type |-> "number", properties |-> <<>>]]>>]

\* ------------------------------------------------------------------------
\* Properties of the Agent run (checked under SpecAgent / SpecAgentFair)
\* ------------------------------------------------------------------------
RunEnded == pc = "done" /\ run.type \in {"success", "fatal", "cancelled"}

\* C25: provided each Model, Environment and user-prompt call returns, a run
\* started with maxRounds = M reaches Done, Failed or Cancelled, after at
\* most M tool dispatches and at most M + 1 executions of step.
C25_Terminates ==
  /\ [](dispatches <= maxRounds /\ rounds <= maxRounds + 1
         /\ Len(executed) <= dispatches)
  /\ <>[]RunEnded
C25_Witness ==
  /\ RunEnded /\ run.type = "success"
  /\ maxRounds = MaxRoundsBound /\ dispatches = maxRounds /\ rounds = maxRounds

\* C26: a fatal error raised during a round's dispatch (the Model call
\* throws, no tool is chosen, the chosen tool is unknown, a tool's
\* implementation or an approval step throws) ends the run with that error:
\* the failed round appends no history entry, and no further round, prompt,
\* dispatch or tool execution follows.
DispatchFailed == pc = "returned" /\ dres.type = "fatal"
C26_Invariant ==
  (pc = "done" /\ run.type = "fatal" /\ ~MaxRoundsReached) =>
    /\ dres = Rejected(run.msg)
    /\ dispatches = rounds /\ prompts = rounds
    /\ Len(messageHistory) = rounds - 1
C26_Action ==
  /\ (pc = "model" /\ pc' = "returned") => DispatchFailed'
  /\ (pc = "parse" /\ (FirstToolUse(content) = NoCall
                         \/ find(tools, FirstToolUse(content).name) = 0))
       => DispatchFailed'
  /\ DispatchFailed =>
       /\ pc' = "done" /\ run' = [type |-> "fatal", msg |-> dres.msg]
       /\ messageHistory' = messageHistory
       /\ rounds' = rounds /\ prompts' = prompts
       /\ dispatches' = dispatches /\ executed' = executed
  /\ pc # "done"
C26_FatalEndsRun == []C26_Invariant /\ [][C26_Action]_vars
C26_Witness ==
  /\ pc = "done" /\ run = [type |-> "fatal", msg |-> "environment error"]
  /\ rounds = 2 /\ dispatches = 2
  /\ Len(messageHistory) = 1 /\ Len(executed) = 2

\* C27: the history is append-only and grows by exactly one entry (tool
\* name, input, output) per dispatch that resolved to Success: its length is
\* the number of rounds completed with a Success, entries already in it are
\* never modified or removed, and entry i is the one of round i.
SuccessfulRounds ==
  IF pc = "step" \/ (pc = "done" /\ run.type = "success") THEN rounds
  ELSE rounds - 1
C27_Invariant == Len(messageHistory) = SuccessfulRounds
C27_Action ==
  /\ (pc = "returned" /\ dres.type = "success") =>
       /\ Len(messageHistory') = Len(messageHistory) + 1
       /\ Len(messageHistory') = rounds
       /\ messageHistory'[rounds].tool = dres.value.tool
       /\ messageHistory'[rounds].input = dres.value.input
       /\ messageHistory'[rounds].output = dres.value.output.val
  /\ ~(pc = "returned" /\ dres.type = "success") =>
       messageHistory' = messageHistory
  /\ SubSeq(messageHistory', 1, Len(messageHistory)) = messageHistory
C27_HistoryAppendOnly == []C27_Invariant /\ [][C27_Action]_vars
C27_Witness ==
  /\ pc = "done" /\ run.type = "cancelled" /\ rounds = 2
  /\ messageHistory =
       <<[user |-> "assistant", tool |-> "next_problem", msg |-> "tool called",
          input |-> NoInput, output |-> "diagnostic"]>>

\* C28: rounds run strictly one after the other: a prompt is built, and a
\* dispatch started, only when every earlier dispatch of the run has ended
\* with a Success and its history entry is appended, so the prompt of round
\* N + 1 shows the entry of round N, and at most one dispatch is in flight.
InFlight ==
  pc \in {"model", "parse", "approveInput", "execute", "approveOutput",
          "returned"}
C28_Invariant ==
  /\ dispatches - Len(messageHistory) \in {0, 1}
  /\ InFlight => dispatches = Len(messageHistory) + 1 /\ dispatches = rounds
  /\ pc \in {"step", "prompt"} => dispatches = Len(messageHistory)
C28_Action ==
  /\ dispatches' # dispatches =>
       /\ pc = "prompt" /\ ~InFlight /\ InFlight'
       /\ dispatches' = dispatches + 1
       /\ Len(messageHistory) = dispatches
       /\ dres.type \in {"none", "success"}
       /\ prompt'.history =
            (IF Len(messageHistory) <= 6 THEN messageHistory
             ELSE SubSeq(messageHistory, Len(messageHistory) - 5,
                         Len(messageHistory)))
  /\ prompt' # prompt => dispatches' = dispatches + 1
C28_RoundsSequential == []C28_Invariant /\ [][C28_Action]_vars
C28_Witness ==
  /\ pc = "model" /\ rounds = 2 /\ dispatches = 2
  /\ Len(prompt.history) = 1 /\ prompt.history = messageHistory
  /\ prompt.history[1].tool = "setPlan" /\ prompt.plan = "plan A"

\* C29: during a run the goal never changes, and the plan changes only in a
\* round whose chosen tool is setPlan, when that tool is run: a round that
\* dispatches another tool, or fails or is cancelled before the tool runs,
\* leaves the plan unchanged.
C29_Action ==
  /\ goal' = goal
  /\ plan' # plan =>
       /\ pc = "execute" /\ tools[chosen].name = "setPlan"
       /\ call.name = "setPlan" /\ plan' = call.input.plan
  /\ (pc = "returned" /\ executed # <<>> /\ Len(executed) > mark
        /\ executed[Len(executed)].name # "setPlan") =>
       plan = prompt.plan
  /\ (pc = "returned" /\ Len(executed) = mark) => plan = prompt.plan
C29_PlanFrame == [][C29_Action]_vars
C29_Witness ==
  /\ pc = "done" /\ run.type = "fatal" /\ plan = "plan A" /\ rounds = 2
  /\ Len(executed) = 1 /\ executed[1].name = "setPlan"
  /\ call.name = "bogus"

\* C30: constructing an Effect performs no work: a step that builds an
\* Effect without executing it - here calling a tool's implementation on an
\* input - changes neither the Agent state nor the Environment; only
\* execute does.
C30_ConstructionInert ==
  [][(eop = "none" /\ eres' = NoExec) =>
       (avars' = avars /\ nvars' = nvars /\ svars' = svars)]_vars

\* ------------------------------------------------------------------------
\* Properties of sequence under concurrency (checked under SpecConc)
\* ------------------------------------------------------------------------
Delivered == pc = "conc" /\ eres # NoExec
AllSucceed == \A i \in Indices(ein) : ein[i].res.type = "success"

\* C31: when every input Effect of sequence succeeds, the result is Success
\* of a tuple with exactly one value per input, position i holding the value
\* of the i-th input, whatever the order in which the inputs completed.
C31_TupleInInputOrder ==
  (Delivered /\ AllSucceed)
    => /\ eres.res.type = "success"
       /\ eres.res.value.k = "tuple"
       /\ Len(eres.res.value.items) = Len(ein)
       /\ \A i \in Indices(ein) : eres.res.value.items[i] = ein[i].res.value
C31_Witness ==
  /\ Delivered
  /\ ein = <<pure(Num(1)), pure(Num(2))>>
  /\ settled = <<2, 1>>
  /\ eres.res = success(Tuple(<<Num(1), Num(2)>>))

\* C32 as stated: no outcome of sequence - Success, Cancelled or fatal - is
\* delivered while some branch is still running.
C32_Original == Delivered => Unsettled = {}
\* C32 amended: Success and Cancelled are delivered only once every branch
\* has settled; the only outcome delivered while a branch is still running
\* is the fatal error of a branch that has already failed.
C32_AllOrNothing ==
  /\ all.state = "fulfilled" => Unsettled = {}
  /\ (Delivered /\ eres.res.type \in {"success", "cancelled"}) => Unsettled = {}
  /\ (Delivered /\ Unsettled # {})
       => /\ eres.res.type = "fatal"
          /\ \E k \in Indices(settled) : ein[settled[k]].res = eres.res
C32_Witness ==
  /\ Delivered
  /\ ein = <<fail("boom"), pure(Num(1)), pure(Num(2))>>
  /\ settled = <<1>>
  /\ eres.res = rejection("boom")

FatalSettled == {k \in Indices(settled) : ein[settled[k]].res.type = "fatal"}
FirstFailure ==
  ein[settled[CHOOSE k \in FatalSettled : \A j \in FatalSettled : k <= j]].res

C35_Invariant ==
  /\ FatalSettled # {} => (all.state = "rejected" /\ all.msg = FirstFailure.msg)
  /\ (Delivered /\ SomeFatal(ein)) => (FatalSettled # {} /\ eres.res = FirstFailure)
\* C35: in sequence a fatal failure takes precedence over cancellation: the
\* sequence is rejected with a branch's fatal error at the moment that
\* branch fails, even when another branch resolved to Cancelled and while
\* other branches are still running; the error is then raised, and the
\* remaining branches still run to their end.
C35_FatalFirst ==
  /\ []C35_Invariant
  /\ (all.state = "rejected") ~> (Delivered /\ eres.res.type = "fatal")
  /\ <>[](Unsettled = {})
C35_Witness ==
  /\ Delivered
  /\ ein = <<cancel, fail("boom"), pure(Num(1))>>
  /\ settled = <<1, 2>>
  /\ eres.res = rejection("boom")

\* ------------------------------------------------------------------------
\* Properties of cancellation inside a round (checked under SpecAgent)
\* ------------------------------------------------------------------------
\* the dispatch came back Cancelled although the user accepted every gate
\* asked: the chosen tool ran and resolved to Cancelled itself
ToolCancelled ==
  /\ pc = "returned" /\ dres = Cancelled
  /\ ~UserAborted /\ Len(executed) = mark + 1

C33_Invariant ==
  ToolCancelled =>
    /\ gates = <<"continue">>
    /\ Len(messageHistory) = rounds - 1
C33_Step ==
  ToolCancelled =>
    /\ pc' = "done" /\ RunCancelled'
    /\ messageHistory' = messageHistory
    /\ rounds' = rounds /\ prompts' = prompts
    /\ dispatches' = dispatches /\ executed' = executed
\* C33: a Cancelled outcome produced by the chosen tool itself (next_problem
\* with no diagnostic under the new cursor) comes back as a Cancelled
\* dispatch without the output gate being asked, and ends the whole run as
\* Cancelled: no history entry for that round, no further round.
C33_ToolCancelEndsRun == []C33_Invariant /\ [][C33_Step]_vars
C33_Witness ==
  /\ pc = "done" /\ RunCancelled
  /\ gates = <<"continue">>
  /\ executed[Len(executed)].name = "next_problem"
  /\ rounds = 2 /\ Len(messageHistory) = 1 /\ Len(executed) = 2

\* the user answered the input gate and dismissed the output gate
OutputAborted ==
  /\ pc = "returned" /\ dres = Cancelled
  /\ gates = <<"continue", "abort">>

C34_Invariant ==
  OutputAborted =>
    /\ Len(executed) = mark + 1
    /\ LET last == executed[Len(executed)]
       IN  /\ last.name = "setPlan" => plan = last.input.plan
           /\ last.name = "next_problem" => cursor.line > 0
    /\ Len(messageHistory) = rounds - 1
    /\ \A i \in Indices(messageHistory) :
         messageHistory[i].tool = executed[i].name
C34_Step ==
  OutputAborted =>
    /\ pc' = "done" /\ RunCancelled'
    /\ messageHistory' = messageHistory /\ executed' = executed
    /\ plan' = plan /\ cursor' = cursor
\* C34: when the user aborts at the output gate of an interactive round, the
\* chosen tool has already been executed and what it did persists (setPlan
\* has replaced the plan, next_problem has moved the cursor), yet the round
\* and the run resolve to Cancelled and no history entry records the call.
C34_AbortKeepsEffect == []C34_Invariant /\ [][C34_Step]_vars
C34_Witness ==
  /\ pc = "done" /\ RunCancelled
  /\ gates = <<"continue", "abort">>
  /\ Len(executed) = 1 /\ executed[1].name = "setPlan"
  /\ plan = "plan A" /\ messageHistory = <<>>

\* ------------------------------------------------------------------------
\* Properties of derived tools (checked under SpecTool)
\* ------------------------------------------------------------------------
\* C36: Tool.map, mapA, sideEffect and debug return a tool with the name,
\* description and inputSchema of the original and an empty example list,
\* so a tool that passed through one of them (as every toolkit tool does,
\* through _stepMap's map) is described to the Model without any of its
\* declared examples.
C36_DerivedDropsExamples ==
  nop = "derive" =>
    /\ nout.tool.name = nin.tool.name
    /\ nout.tool.description = nin.tool.description
    /\ nout.tool.inputSchema = nin.tool.inputSchema
    /\ nout.tool.examples = <<>>
    /\ nout.description = nin.tool.description \o "\n\nExamples:"
C36_Witness ==
  /\ nop = "derive" /\ nin.method = "map"
  /\ Len(nin.tool.examples) = 2
  /\ nin.tool.examples[1] = [input |-> Num(1), output |-> Num(2)]
  /\ nout.description = "A tool for testing\n\nExamples:"

\* ------------------------------------------------------------------------
\* Properties of repeated navigation calls (checked under SpecNav)
\* ------------------------------------------------------------------------
Translated == nop \in {"translate_cursor", "translate_cursor again"}

C37_Invariant == nop = "cursor_location" => nout = Moved(cursor)
C37_Action ==
  /\ Translated' => (cursor' = cursor /\ doc' = doc)
  /\ (Translated /\ nop' = "translate_cursor again") => (nout' = nout /\ nin' = nin)
  /\ (Translated /\ nop' = "cursor_location") => nout' = Moved(cursor)
FirstNamed(i, name) ==
  /\ i \in Indices(tools) /\ tools[i].name = name
  /\ \A j \in 1..(i - 1) : tools[j].name # name

\* C38: when the tool list holds several tools of the same name the
\* dispatch does not fail for that reason: a call naming a provided tool is
\* never rejected at the selection, and the tool chosen and executed is the
\* first of that name in list order, never a later one.
C38_FirstOfName ==
  /\ (Parsed /\ call # NoCall /\ Provided(call.name)) =>
       /\ FirstNamed(chosen, call.name)
       /\ dres \notin {Rejected("No tool was chosen"),
                       Rejected("Chosen tool not found in provided tools")}
  /\ \A k \in Indices(ThisDispatch) :
       /\ FirstNamed(ThisDispatch[k].idx, ThisDispatch[k].name)
       /\ ThisDispatch[k].name = call.name
C38_Witness ==
  /\ pc = "returned" /\ dres.type = "success"
  /\ tools = <<Tool("setPlan", Intermediate), Tool("setPlan", Intermediate)>>
  /\ executed = <<[idx |-> 1, name |-> "setPlan",
                   input |-> [plan |-> "plan A", summary |-> ""]]>>

\* C39: for every target range lying inside the document and every n >= 0
\* the three ranges are contiguous and do not overlap: before ends exactly
\* at target.start, after starts exactly at target.end and holds no text of
\* the target, also when the target spans more lines than n.
C39_Contiguous ==
  (nop = "surrounding_ctx" /\ InDoc(nin.range.start) /\ InDoc(nin.range.end))
    => /\ nout.target = nin.range
       /\ nout.before.end = nin.range.start
       /\ nout.after.start = nin.range.end
       /\ ~isBefore(nout.after.start, nout.target.end)

\* ------------------------------------------------------------------------
\* Properties of the repeat command (checked under SpecApp)
\* ------------------------------------------------------------------------
\* C40: executing repeat after any sequence of commands, also one whose
\* last tracked command is repeat itself, terminates having run the action
\* of the most recently tracked command exactly once: the handler looks the
\* history up once and the action it finds runs to a result; with an empty
\* history it fails with "No previous command to repeat".
C40_RepeatOnce ==
  ran # <<>> /\ ran[1] = "repeat" =>
    /\ Len(ran) <= 2
    /\ Len(ran) = 2 => ran[2] # "repeat"
    /\ (cmd = "" /\ Len(ran) = 1) => result = "No previous command to repeat"
====
